---- MODULE Spec2Model ----
(***************************************************************************)
(* Review-state engine of diff-reviewer (src/src/state/stateManager.ts)    *)
(* together with the git collaborator it drives (gitAdapter.ts) and the    *)
(* hunk identities of src/src/git/diffParser.ts.                           *)
(*                                                                         *)
(* The working tree of every path is a sequence of lines: the lines of     *)
(* HEAD with lines inserted between them.  `git diff HEAD`, parsed and     *)
(* split, is then one sub-hunk per maximal run of inserted lines.          *)
(***************************************************************************)
EXTENDS Integers, Sequences, FiniteSets, TLC

VARIABLES
  worktree,    \* path -> lines on disk (what git diff / git apply see)
  edits,       \* lines the user has inserted so far
  statuses,    \* StateManager.statuses: path -> (hunkId -> HunkStatus), partial in both
  undoStack,   \* StateManager.undoStack: sequence of UndoEntry, top is last
  storage,     \* the Memento blob under STORAGE_KEY
  pc,          \* where the running engine call is suspended ("idle": none is running)
  call,        \* the running or last engine call: its name, arguments and locals
  gitLog,      \* external git calls issued by the running or last engine call, in order
  result,      \* how the last engine call ended and what it returned
  pre,         \* statuses, undoStack, storage and worktree when the last engine call began
  treeFiles,   \* FileTreeProvider.files: what getFiles() returns, path -> File
  webviewFile  \* path -> the File the webview of its panel displays (<<>>: none)

vars == <<worktree, edits, statuses, undoStack, storage, pc, call, gitLog, result, pre,
          treeFiles, webviewFile>>

(***************************************************************************)
(* Bounds and fixtures                                                     *)
(***************************************************************************)
\* Lines the user inserts into the working trees, over all paths.
MaxInserted == 2

\* Depth of the undo stack; a call that would push beyond it is not started.
MaxUndo == 2

Paths == {"a.txt", "b.txt"}

\* Texts of inserted lines; no line of HEAD has one of these texts.
Contents == {"x", "y"}

\* The committed content of every path.
HeadLines == <<"h1">>

\* Reviews that begin on a file already edited (SpecBatch): its committed content and
\* the lines inserted into it.
BatchHead == <<"h1", "h2">>

BatchInserted == 3

(***************************************************************************)
(* Sequences                                                               *)
(***************************************************************************)
Range(s) == {s[i] : i \in DOMAIN s}

Remove(s, i) == [j \in 1..(Len(s) - 1) |-> IF j < i THEN s[j] ELSE s[j + 1]]

InsertAfter(s, k, t) == SubSeq(s, 1, k) \o t \o SubSeq(s, k + 1, Len(s))

RECURSIVE Flatten(_)
Flatten(ss) == IF ss = <<>> THEN <<>> ELSE Head(ss) \o Flatten(Tail(ss))

\* Array.prototype.join on a sequence of strings.
RECURSIVE Join(_, _)
Join(ss, sep) ==
  IF ss = <<>> THEN ""
  ELSE IF Len(ss) = 1 THEN ss[1]
  ELSE ss[1] \o sep \o Join(Tail(ss), sep)

(***************************************************************************)
(* Hunk identity: diffParser.ts, fnv1a / computeHunkId / computeHunkIds    *)
(***************************************************************************)
\* String.prototype.charCodeAt over the strings the model uses.
charCodes ==
  [s \in {"a.txt", "b.txt", "x", "y", "add", "remove"} |->
     CASE s = "a.txt" -> <<97, 46, 116, 120, 116>>
       [] s = "b.txt" -> <<98, 46, 116, 120, 116>>
       [] s = "x" -> <<120>>
       [] s = "y" -> <<121>>
       [] s = "add" -> <<97, 100, 100>>
       [] s = "remove" -> <<114, 101, 109, 111, 118, 101>>]

RECURSIVE BitXor(_, _)
BitXor(a, b) ==
  IF a = 0 THEN b
  ELSE IF b = 0 THEN a
  ELSE 2 * BitXor(a \div 2, b \div 2) + ((a + b) % 2)

\* A 32-bit word is kept as its two 16-bit halves <<hi, lo>>: hi * 2^16 + lo.
Half == 65536

\* 0x811c9dc5
FnvOffset == <<33052, 40389>>

\* 0x01000193
FnvPrime == <<256, 403>>

\* hash ^= code, for a UTF-16 code unit
XorCode(h, code) == <<h[1], BitXor(h[2], code)>>

\* Math.imul(hash, 0x01000193): the low 32 bits of the product
Imul(h, p) ==
  LET low == h[2] * p[2]
  IN <<(h[1] * p[2] + h[2] * p[1] + (low \div Half)) % Half, low % Half>>

HexDigits == <<"0", "1", "2", "3", "4", "5", "6", "7", "8", "9", "a", "b", "c", "d", "e", "f">>

\* four hexadecimal digits of a 16-bit half, leading zeros kept
Hex4(n) ==
  HexDigits[(n \div 4096) + 1] \o HexDigits[((n \div 256) % 16) + 1]
    \o HexDigits[((n \div 16) % 16) + 1] \o HexDigits[(n % 16) + 1]

RECURSIVE FnvLoop(_, _)
FnvLoop(h, codes) ==
  IF codes = <<>> THEN h
  ELSE LET next == Imul(XorCode(h, codes[1]), FnvPrime)
       IN \* the test has TLC compute this round's hash before it starts the next round
          IF next[2] >= 0 THEN FnvLoop(next, Tail(codes)) ELSE next

\* fnv1a(str), str given by its code units: (hash >>> 0).toString(16).padStart(8, '0')
fnv1a(codes) == LET h == FnvLoop(FnvOffset, codes) IN Hex4(h[1]) \o Hex4(h[2])

\* code units of `${l.type}:${l.content}` joined by '\n'
RECURSIVE ChangedCodes(_)
ChangedCodes(ls) ==
  IF ls = <<>> THEN <<>>
  ELSE charCodes[ls[1].type] \o <<58>> \o charCodes[ls[1].content]
         \o (IF Len(ls) = 1 THEN <<>> ELSE <<10>> \o ChangedCodes(Tail(ls)))

\* an identity that also hashes the line the hunk starts at
computeHunkIdAtLine(filePath, hunk) ==
  LET changed == SelectSeq(hunk.lines, LAMBDA l : l.type = "add" \/ l.type = "remove")
  IN fnv1a(charCodes[filePath] \o <<0, hunk.newStart>> \o ChangedCodes(changed))

computeHunkId(filePath, hunk) ==
  LET changed == SelectSeq(hunk.lines, LAMBDA l : l.type = "add" \/ l.type = "remove")
  IN fnv1a(charCodes[filePath] \o <<0>> \o ChangedCodes(changed))

\* first loop of computeHunkIds: ids[i] and the final `seen` counts
Occurrences(bases, i) == Cardinality({j \in 1..i : bases[j] = bases[i]})

\* the first loop alone: the first occurrence keeps the bare hash
computeHunkIdsFirstBare(filePath, hunks) ==
  LET bases == [i \in DOMAIN hunks |-> computeHunkId(filePath, hunks[i])]
  IN [i \in DOMAIN hunks |->
        IF Occurrences(bases, i) = 1 THEN bases[i]
        ELSE bases[i] \o "-" \o ToString(Occurrences(bases, i))]

computeHunkIds(filePath, hunks) ==
  LET bases == [i \in DOMAIN hunks |-> computeHunkId(filePath, hunks[i])]
      first == [i \in DOMAIN hunks |->
                  IF Occurrences(bases, i) = 1 THEN bases[i]
                  ELSE bases[i] \o "-" \o ToString(Occurrences(bases, i))]
      seen(id) == Cardinality({j \in DOMAIN hunks : bases[j] = id})
  IN [i \in DOMAIN hunks |-> IF seen(first[i]) > 1 THEN first[i] \o "-1" ELSE first[i]]

(***************************************************************************)
(* git: `git diff HEAD` read through parseDiff, splitHunks, computeHunkIds *)
(* (gitAdapter.ts getDiff / getFileDiff), and `git apply --unidiff-zero`   *)
(***************************************************************************)
IsInserted(line) == line \in Contents

InsertedCount(wt) == Cardinality({i \in DOMAIN wt : IsInserted(wt[i])})

\* first line of every maximal run of inserted lines
RunStarts(wt) == {i \in DOMAIN wt : IsInserted(wt[i]) /\ (i = 1 \/ ~IsInserted(wt[i - 1]))}

RunEnd(wt, s) ==
  CHOOSE e \in s..Len(wt) :
    /\ \A j \in s..e : IsInserted(wt[j])
    /\ e = Len(wt) \/ ~IsInserted(wt[e + 1])

RECURSIVE SortedSeq(_)
SortedSeq(S) ==
  IF S = {} THEN <<>>
  ELSE LET m == CHOOSE x \in S : \A y \in S : x <= y IN <<m>> \o SortedSeq(S \ {m})

\* a header that always starts at the group's own first line
HunkHeaderAtGroupStart(groupOldStart, groupOldCount, groupNewStart, groupNewCount) ==
  "@@ -" \o ToString(groupOldStart) \o "," \o ToString(groupOldCount)
    \o " +" \o ToString(groupNewStart) \o "," \o ToString(groupNewCount) \o " @@"

\* the header splitHunks writes for a change group
HunkHeader(groupOldStart, groupOldCount, groupNewStart, groupNewCount) ==
  LET patchOldStart == IF groupOldCount = 0 THEN groupOldStart - 1 ELSE groupOldStart
      patchNewStart == IF groupNewCount = 0 THEN groupNewStart - 1 ELSE groupNewStart
  IN "@@ -" \o ToString(patchOldStart) \o "," \o ToString(groupOldCount)
       \o " +" \o ToString(patchNewStart) \o "," \o ToString(groupNewCount) \o " @@"

\* the inner while loop of splitHunks: the index after the change group that starts at i
GroupEndAtNextLine(lines, i) == i + 1

RECURSIVE GroupEnd(_, _)
GroupEnd(lines, i) ==
  IF i <= Len(lines) /\ lines[i].type # "context" THEN GroupEnd(lines, i + 1) ELSE i

\* groupRawLines.push('-' + line.content) / groupRawLines.push('+' + line.content)
GroupRawLine(line) ==
  IF line.type = "remove" THEN <<"-" \o line.content>>
  ELSE IF line.type = "add" THEN <<"+" \o line.content>>
  ELSE <<>>

\* a sub-hunk whose start fields carry the numbers of its header
GroupStoringPatchStart(hunk, i, oldLine, newLine) ==
  LET e == GroupEnd(hunk.lines, i)
      groupLines == SubSeq(hunk.lines, i, e - 1)
      groupOldCount == Cardinality({k \in DOMAIN groupLines : groupLines[k].type = "remove"})
      groupNewCount == Cardinality({k \in DOMAIN groupLines : groupLines[k].type = "add"})
      header == HunkHeader(oldLine, groupOldCount, newLine, groupNewCount)
  IN [oldStart |-> IF groupOldCount = 0 THEN oldLine - 1 ELSE oldLine, oldCount |-> groupOldCount,
      newStart |-> IF groupNewCount = 0 THEN newLine - 1 ELSE newLine, newCount |-> groupNewCount,
      header |-> header,
      lines |-> groupLines,
      rawLines |-> <<header>> \o Flatten([k \in DOMAIN groupLines |-> GroupRawLine(groupLines[k])])]

\* the sub-hunk result.push(...) adds for the change group that starts at line i of the
\* hunk, the cursors being at oldLine and newLine
Group(hunk, i, oldLine, newLine) ==
  LET e == GroupEnd(hunk.lines, i)
      groupLines == SubSeq(hunk.lines, i, e - 1)
      groupOldCount == Cardinality({k \in DOMAIN groupLines : groupLines[k].type = "remove"})
      groupNewCount == Cardinality({k \in DOMAIN groupLines : groupLines[k].type = "add"})
      header == HunkHeader(oldLine, groupOldCount, newLine, groupNewCount)
  IN [oldStart |-> oldLine, oldCount |-> groupOldCount,
      newStart |-> newLine, newCount |-> groupNewCount,
      header |-> header,
      lines |-> groupLines,
      rawLines |-> <<header>> \o Flatten([k \in DOMAIN groupLines |-> GroupRawLine(groupLines[k])])]

\* a split that stops after the first change group it meets
splitHunkFirstGroup(hunk, i, oldLine, newLine) ==
  LET changed == {k \in i..Len(hunk.lines) : hunk.lines[k].type # "context"}
  IN IF changed = {} THEN <<>>
     ELSE LET first == CHOOSE k \in changed : \A j \in changed : k <= j
          IN <<Group(hunk, first, oldLine + (first - i), newLine + (first - i))>>

\* the outer while loop of splitHunks over one hunk, from line i on
RECURSIVE splitHunkFrom(_, _, _, _)
splitHunkFrom(hunk, i, oldLine, newLine) ==
  IF i > Len(hunk.lines) THEN <<>>
  ELSE IF hunk.lines[i].type = "context" THEN splitHunkFrom(hunk, i + 1, oldLine + 1, newLine + 1)
  ELSE LET group == Group(hunk, i, oldLine, newLine)
       IN <<group>> \o splitHunkFrom(hunk, GroupEnd(hunk.lines, i),
                                     oldLine + group.oldCount, newLine + group.newCount)

splitHunks(hunks) ==
  Flatten([h \in DOMAIN hunks |-> splitHunkFrom(hunks[h], 1, hunks[h].oldStart, hunks[h].newStart)])

\* The sub-hunk of the run of inserted lines s..e: the old-line cursor has passed the
\* lines of HEAD before s, the new-line cursor is at s.
SubHunk(wt, s) ==
  LET e == RunEnd(wt, s)
      groupOldStart == Cardinality({j \in 1..(s - 1) : ~IsInserted(wt[j])}) + 1
      groupNewCount == e - s + 1
      header == HunkHeader(groupOldStart, 0, s, groupNewCount)
  IN [oldStart |-> groupOldStart, oldCount |-> 0,
      newStart |-> s, newCount |-> groupNewCount,
      header |-> header,
      lines |-> [k \in 1..groupNewCount |-> [type |-> "add", content |-> wt[s + k - 1]]],
      rawLines |-> <<header>> \o [k \in 1..groupNewCount |-> "+" \o wt[s + k - 1]]]

diffSubHunks(wt) == LET starts == SortedSeq(RunStarts(wt)) IN [i \in DOMAIN starts |-> SubHunk(wt, starts[i])]

\* One DiffFile of getDiff / getFileDiff: the sub-hunks with their ids set.
DiffFileOf(path, wt) ==
  LET hunks == diffSubHunks(wt)
      ids == computeHunkIds(path, hunks)
  IN [oldPath |-> path, newPath |-> path, isBinary |-> FALSE,
      hunks |-> [i \in DOMAIN hunks |->
                   [oldStart |-> hunks[i].oldStart, oldCount |-> hunks[i].oldCount,
                    newStart |-> hunks[i].newStart, newCount |-> hunks[i].newCount,
                    header |-> hunks[i].header, lines |-> hunks[i].lines,
                    rawLines |-> hunks[i].rawLines, id |-> ids[i]]]]

Max(a, b) == IF a > b THEN a ELSE b

\* the longest content of a path, and the longest run of inserted lines
MaxLines == Max(Len(HeadLines) + MaxInserted, Len(BatchHead) + BatchInserted)

MaxRun == Max(MaxInserted, BatchInserted)

\* every content a path can have: the committed lines with up to n lines inserted
RECURSIVE WithInserted(_, _)
WithInserted(head, n) ==
  IF n = 0 THEN {head}
  ELSE LET fewer == WithInserted(head, n - 1)
       IN fewer \cup UNION {{InsertAfter(wt, k, <<c>>) : k \in 0..Len(wt), c \in Contents} :
                              wt \in {w \in fewer : Len(w) = Len(head) + n - 1}}

Worktrees == WithInserted(HeadLines, MaxInserted) \cup WithInserted(BatchHead, BatchInserted)

\* what `git diff HEAD -- path` parses to, for every content of the path
DiffFiles == [p \in Paths |-> [wt \in Worktrees |-> DiffFileOf(p, wt)]]

\* getFileDiff(filePath): [] when git prints nothing, else the file
getFileDiff(wts, filePath) ==
  IF InsertedCount(wts[filePath]) = 0 THEN <<>> ELSE <<DiffFiles[filePath][wts[filePath]]>>

\* getDiff(), as FileTreeProvider keeps it: the changed paths and their DiffFile
getDiff(wts) ==
  [p \in {q \in Paths : InsertedCount(wts[q]) > 0} |-> DiffFiles[p][wts[p]]]

(***************************************************************************)
(* diffParser.ts parseDiff, on the text of a diff.  A string is a sequence *)
(* of characters: Len and SubSeq apply to it; lines are numbered from 1.   *)
(***************************************************************************)
\* String.prototype.startsWith
StartsWith(str, prefix) == Len(str) >= Len(prefix) /\ SubSeq(str, 1, Len(prefix)) = prefix

\* String.prototype.slice(n)
Slice(str, n) == SubSeq(str, n + 1, Len(str))

\* String.prototype.substring(from - 1, to): the characters from..to that the string has
Substring(str, from, to) == SubSeq(str, from, IF to > Len(str) THEN Len(str) ELSE to)

\* String.prototype.indexOf, -1 when sub does not occur
IndexOf(str, sub) ==
  LET hits == {k \in 0..(Len(str) - Len(sub)) : SubSeq(str, k + 1, k + Len(sub)) = sub}
  IN IF hits = {} THEN -1 ELSE CHOOSE k \in hits : \A m \in hits : k <= m

\* String.prototype.split(sep), sep one character
RECURSIVE Split(_, _)
Split(str, sep) ==
  LET k == IndexOf(str, sep)
  IN IF k = -1 THEN <<str>> ELSE <<SubSeq(str, 1, k)>> \o Split(Slice(str, k + 1), sep)

DecimalDigits == <<"0", "1", "2", "3", "4", "5", "6", "7", "8", "9">>

IsDigit(c) == \E d \in DOMAIN DecimalDigits : DecimalDigits[d] = c

\* parseInt(str, 10) of a string of digits
RECURSIVE ParseInt(_)
ParseInt(str) ==
  IF str = "" THEN 0
  ELSE LET last == SubSeq(str, Len(str), Len(str))
           d == CHOOSE k \in DOMAIN DecimalDigits : DecimalDigits[k] = last
       IN 10 * ParseInt(SubSeq(str, 1, Len(str) - 1)) + (d - 1)

\* \d+ from position k on: the position after the digits it takes (k if there is none)
RECURSIVE DigitsEnd(_, _)
DigitsEnd(str, k) ==
  IF k <= Len(str) /\ IsDigit(Substring(str, k, k)) THEN DigitsEnd(str, k + 1) ELSE k

\* (\d+)(?:,(\d+))? from position k on: <<[first, second, next]>>, second <<>> when the
\* group takes nothing; <<>> when there is no digit at k
MatchRange(str, k) ==
  LET e1 == DigitsEnd(str, k)
      e2 == DigitsEnd(str, e1 + 1)
      counted == Substring(str, e1, e1) = "," /\ e2 > e1 + 1
  IN IF e1 = k THEN <<>>
     ELSE <<[first |-> SubSeq(str, k, e1 - 1),
             second |-> IF counted THEN <<SubSeq(str, e1 + 1, e2 - 1)>> ELSE <<>>,
             next |-> IF counted THEN e2 ELSE e1]>>

\* headerLine.match(/^@@ -(\d+)(?:,(\d+))? \+(\d+)(?:,(\d+))? @@(.*)/): <<>> is null,
\* else <<[old, new]>> with the groups of both sides
MatchHeader(headerLine) ==
  IF ~StartsWith(headerLine, "@@ -") THEN <<>>
  ELSE LET old == MatchRange(headerLine, 5)
       IN IF old = <<>> \/ Substring(headerLine, old[1].next, old[1].next + 1) # " +" THEN <<>>
          ELSE LET new == MatchRange(headerLine, old[1].next + 2)
               IN IF new = <<>> \/ Substring(headerLine, new[1].next, new[1].next + 2) # " @@"
                  THEN <<>>
                  ELSE <<[old |-> old[1], new |-> new[1]]>>

\* a push that keeps the content of the line, not the line, for the patch
PushLineContentOnly(hunk, type, line) ==
  [hunk EXCEPT !.lines = Append(@, [type |-> type, content |-> Slice(line, 1)]),
               !.rawLines = Append(@, Slice(line, 1))]

\* hunk.lines.push({ type, content: line.slice(1) }); hunk.rawLines.push(line)
PushLine(hunk, type, line) ==
  [hunk EXCEPT !.lines = Append(@, [type |-> type, content |-> Slice(line, 1)]),
               !.rawLines = Append(@, line)]

\* the while loop of parseHunk from line i on: the hunk and the index it stops at
RECURSIVE parseHunkBody(_, _, _)
parseHunkBody(lines, i, hunk) ==
  LET stop == [hunk |-> hunk, nextIndex |-> i]
  IN IF i > Len(lines) THEN stop
     ELSE LET line == lines[i]
          IN IF StartsWith(line, "@@") \/ StartsWith(line, "diff --git ") THEN stop
             ELSE IF StartsWith(line, "\\ ")
               THEN parseHunkBody(lines, i + 1, [hunk EXCEPT !.rawLines = Append(@, line)])
             ELSE IF StartsWith(line, "+")
               THEN parseHunkBody(lines, i + 1, PushLine(hunk, "add", line))
             ELSE IF StartsWith(line, "-")
               THEN parseHunkBody(lines, i + 1, PushLine(hunk, "remove", line))
             ELSE IF StartsWith(line, " ") \/ line = ""
               THEN IF line = "" /\ i = Len(lines) THEN stop
                    ELSE parseHunkBody(lines, i + 1, PushLine(hunk, "context", line))
             ELSE stop

\* the hunk parseHunk starts from a header line, its numbers as given
NewHunk(headerLine, oldStart, oldCount, newStart, newCount) ==
  [oldStart |-> oldStart, oldCount |-> oldCount, newStart |-> newStart,
   newCount |-> newCount, header |-> headerLine, lines |-> <<>>, rawLines |-> <<headerLine>>]

\* parseHunk past its test of the header: match[1..4] are the groups
parseHunkMatched(lines, startIndex, match) ==
  parseHunkBody(lines, startIndex + 1,
    NewHunk(lines[startIndex],
            ParseInt(match.old.first),
            IF match.old.second # <<>> THEN ParseInt(match.old.second[1]) ELSE 1,
            ParseInt(match.new.first),
            IF match.new.second # <<>> THEN ParseInt(match.new.second[1]) ELSE 1))

\* a parseHunk that gives up on the text at a header it cannot read
parseHunkGivingUp(lines, startIndex) ==
  LET match == MatchHeader(lines[startIndex])
  IN IF match = <<>>
     THEN [hunk |-> NewHunk(lines[startIndex], 0, 0, 0, 0), nextIndex |-> Len(lines) + 1]
     ELSE parseHunkMatched(lines, startIndex, match[1])

\* parseHunk(lines, startIndex)
parseHunk(lines, startIndex) ==
  LET match == MatchHeader(lines[startIndex])
  IN IF match = <<>>
     THEN [hunk |-> NewHunk(lines[startIndex], 0, 0, 0, 0), nextIndex |-> startIndex + 1]
     ELSE parseHunkMatched(lines, startIndex, match[1])

\* parseDiff, the loop over extended headers: the index of the first line it does not skip
RECURSIVE SkipHeaders(_, _)
SkipHeaders(lines, i) ==
  IF /\ i <= Len(lines)
     /\ ~StartsWith(lines[i], "diff --git ")
     /\ ~StartsWith(lines[i], "---")
     /\ ~StartsWith(lines[i], "@@")
     /\ ~StartsWith(lines[i], "Binary")
  THEN SkipHeaders(lines, i + 1) ELSE i

\* extractPath(line, prefix)
extractPath(line, prefix) ==
  LET idx == IndexOf(line, prefix) IN IF idx >= 0 THEN Slice(line, idx + Len(prefix)) ELSE ""

\* parseDiff, the loop over the hunks of a file
RECURSIVE parseHunks(_, _, _)
parseHunks(lines, i, hunks) ==
  IF i > Len(lines) \/ StartsWith(lines[i], "diff --git ")
  THEN [hunks |-> hunks, nextIndex |-> i]
  ELSE IF StartsWith(lines[i], "@@")
       THEN LET hunk == parseHunk(lines, i)
            IN parseHunks(lines, hunk.nextIndex, Append(hunks, hunk.hunk))
       ELSE parseHunks(lines, i + 1, hunks)

\* parseDiff, one file: lines[i] is its 'diff --git ' line
parseFile(lines, i) ==
  LET b == SkipHeaders(lines, i + 1)
  IN IF b <= Len(lines) /\ StartsWith(lines[b], "Binary")
     THEN [file |-> [oldPath |-> extractPath(lines[b - 1], "a/"),
                     newPath |-> extractPath(lines[b - 1], "b/"),
                     hunks |-> <<>>, isBinary |-> TRUE, diffHeader |-> <<>>],
           nextIndex |-> b + 1]
     ELSE LET hasOld == b <= Len(lines) /\ StartsWith(lines[b], "---")
              n == IF hasOld THEN b + 1 ELSE b
              hasNew == n <= Len(lines) /\ StartsWith(lines[n], "+++")
              h == IF hasNew THEN n + 1 ELSE n
              parsed == parseHunks(lines, h, <<>>)
          IN [file |-> [oldPath |-> IF ~hasOld THEN ""
                                    ELSE IF StartsWith(lines[b], "--- a/")
                                         THEN Slice(lines[b], 6) ELSE Slice(lines[b], 4),
                        newPath |-> IF ~hasNew THEN ""
                                    ELSE IF StartsWith(lines[n], "+++ b/")
                                         THEN Slice(lines[n], 6) ELSE Slice(lines[n], 4),
                        hunks |-> parsed.hunks, isBinary |-> FALSE,
                        diffHeader |-> (IF hasOld THEN <<lines[b]>> ELSE <<>>)
                                         \o (IF hasNew THEN <<lines[n]>> ELSE <<>>)],
              nextIndex |-> parsed.nextIndex]

\* parseDiff, the outer loop from line i on
RECURSIVE parseDiffFrom(_, _, _)
parseDiffFrom(lines, i, files) ==
  IF i > Len(lines) THEN files
  ELSE IF ~StartsWith(lines[i], "diff --git ") THEN parseDiffFrom(lines, i + 1, files)
  ELSE LET f == parseFile(lines, i) IN parseDiffFrom(lines, f.nextIndex, Append(files, f.file))

\* parseDiff(diffText)
parseDiff(diffText) == parseDiffFrom(Split(diffText, "\n"), 1, <<>>)

\* JavaScript's a || b on strings
OrElse(a, b) == IF a # "" THEN a ELSE b

\* a patch whose last line is left without its newline
buildPatchUnterminated(file, hunk) ==
  Join(<<"--- a/" \o OrElse(file.oldPath, file.newPath),
         "+++ b/" \o OrElse(file.newPath, file.oldPath)>> \o hunk.rawLines, "\n")

\* stateManager.ts buildPatch: lines.join('\n') + '\n'
buildPatch(file, hunk) ==
  Join(<<"--- a/" \o OrElse(file.oldPath, file.newPath),
         "+++ b/" \o OrElse(file.newPath, file.oldPath)>> \o hunk.rawLines, "\n") \o "\n"

\* What a patch text can say to git apply: a path and one zero-context insertion.
RECURSIVE SeqsUpTo(_, _)
SeqsUpTo(S, n) ==
  IF n = 0 THEN {<<>>}
  ELSE LET shorter == SeqsUpTo(S, n - 1)
       IN shorter \cup {Append(q, x) : q \in {r \in shorter : Len(r) = n - 1}, x \in S}

Fragments ==
  [path : Paths, oldpos : 0..Max(Len(HeadLines), Len(BatchHead)), newpos : 1..MaxLines,
   added : SeqsUpTo(Contents, MaxRun) \ {<<>>}]

FragmentText(f) ==
  "--- a/" \o f.path \o "\n" \o "+++ b/" \o f.path \o "\n"
    \o "@@ -" \o ToString(f.oldpos) \o ",0 +" \o ToString(f.newpos) \o ","
    \o ToString(Len(f.added)) \o " @@\n"
    \o Join([i \in DOMAIN f.added |-> "+" \o f.added[i]], "\n") \o "\n"

FragmentTexts == {FragmentText(f) : f \in Fragments}

PatchFragment == [t \in FragmentTexts |-> CHOOSE f \in Fragments : FragmentText(f) = t]

\* git apply's reading of a patch text: the fragments it denotes (one, or none if malformed)
ReadPatch(patch) == IF patch \in FragmentTexts THEN {PatchFragment[patch]} ELSE {}

Min(a, b) == IF a < b THEN a ELSE b

Abs(a) == IF a < 0 THEN -a ELSE a

\* 0-based offsets at which `wanted` occurs in the image
Matches(img, wanted) ==
  {q \in 0..(Len(img) - Len(wanted)) : SubSeq(img, q + 1, q + Len(wanted)) = wanted}

\* git apply's position search: from the expected line outwards, forwards before
\* backwards at equal distance.
FindPos(img, wanted, line) ==
  LET start == Min(line, Len(img))
      ms == Matches(img, wanted)
  IN CHOOSE q \in ms :
       \A r \in ms \ {q} :
         \/ Abs(q - start) < Abs(r - start)
         \/ Abs(q - start) = Abs(r - start) /\ q > r

\* `git apply -R --unidiff-zero`: the fragment is reversed, so its preimage is the
\* added lines and the expected line comes from the old side.
CanApplyReverse(wts, patch) ==
  \E f \in ReadPatch(patch) : Matches(wts[f.path], f.added) # {}

\* a git apply -R that reports success and leaves the working tree as it is
ApplyReverseNothing(wts, patch) == wts

ApplyReverse(wts, patch) ==
  LET f == CHOOSE g \in ReadPatch(patch) : TRUE
      img == wts[f.path]
      q == FindPos(img, f.added, IF f.oldpos = 0 THEN 0 ELSE f.oldpos - 1)
  IN [wts EXCEPT ![f.path] = SubSeq(img, 1, q) \o SubSeq(img, q + Len(f.added) + 1, Len(img))]

\* `git apply --unidiff-zero`: nothing to match, the lines go in at the expected line
\* (the beginning of the file when the old side starts at 0).
CanApplyForward(wts, patch) == ReadPatch(patch) # {}

ApplyForward(wts, patch) ==
  LET f == CHOOSE g \in ReadPatch(patch) : TRUE
      img == wts[f.path]
      q == IF f.oldpos = 0 THEN 0 ELSE Min(f.newpos - 1, Len(img))
  IN [wts EXCEPT ![f.path] = InsertAfter(img, q, f.added)]

(***************************************************************************)
(* StateManager: the operations on the status map, the undo stack and the  *)
(* stored blob                                                             *)
(***************************************************************************)
MapSet(m, k, v) == [x \in (DOMAIN m) \cup {k} |-> IF x = k THEN v ELSE m[x]]

MapDelete(m, k) == [x \in (DOMAIN m) \ {k} |-> m[x]]

\* file.newPath || file.oldPath
PathOf(file) == OrElse(file.newPath, file.oldPath)

HunkIds(file) == {file.hunks[i].id : i \in DOMAIN file.hunks} \ {""}

\* a persist that writes every entry of the status map, whatever its status
persistEveryStatus(st) == st

\* persist(): only approved entries, and only paths that have one
persist(st) ==
  [p \in {q \in DOMAIN st : \E id \in DOMAIN st[q] : st[q][id] = "approved"} |->
     [id \in {i \in DOMAIN st[p] : st[p][i] = "approved"} |-> "approved"]]

\* restoreFromStorage(): one map per stored path
restoreFromStorage(blob) == [p \in DOMAIN blob |-> [id \in DOMAIN blob[p] |-> blob[p][id]]]

\* a reconciliation that builds the new map without looking at the existing one
syncStatusesForgetting(st, file) ==
  MapSet(st, PathOf(file), [id \in HunkIds(file) |-> "pending"])

\* syncStatuses(file): the status map afterwards
syncStatuses(st, file) ==
  LET path == PathOf(file)
      fresh == path \notin DOMAIN st \/ DOMAIN st[path] = {}
      map == [id \in HunkIds(file) |-> "pending"]
      newMap == [id \in HunkIds(file) |->
                   IF id \in DOMAIN st[path] THEN st[path][id] ELSE "pending"]
  IN MapSet(st, path, IF fresh THEN map ELSE newMap)

\* syncStatuses(file): the array it returns
syncStatusesResult(st, file) ==
  LET path == PathOf(file)
      fresh == path \notin DOMAIN st \/ DOMAIN st[path] = {}
      newMap == syncStatuses(st, file)[path]
  IN [i \in DOMAIN file.hunks |->
        IF fresh THEN "pending"
        ELSE IF file.hunks[i].id # "" /\ file.hunks[i].id \in DOMAIN newMap
             THEN newMap[file.hunks[i].id] ELSE "pending"]

\* getStatusArray(file)
getStatusArray(st, file) ==
  LET path == PathOf(file)
  IN [i \in DOMAIN file.hunks |->
        IF path \in DOMAIN st /\ file.hunks[i].id # "" /\ file.hunks[i].id \in DOMAIN st[path]
        THEN st[path][file.hunks[i].id] ELSE "pending"]

\* getStatuses(filePath): the values of the path's map, [] for an unknown path (the
\* model's maps keep no insertion order: the values come in one fixed order of the ids)
getStatuses(st, filePath) ==
  IF filePath \notin DOMAIN st THEN <<>>
  ELSE LET ids == CHOOSE q \in [1..Cardinality(DOMAIN st[filePath]) -> DOMAIN st[filePath]] :
                    Range(q) = DOMAIN st[filePath]
       IN [i \in DOMAIN ids |-> st[filePath][ids[i]]]

\* a check that finds a tracked file with no hunk left resolved
isFileResolvedVacuously(st, filePath) ==
  /\ filePath \in DOMAIN st
  /\ \A id \in DOMAIN st[filePath] : st[filePath][id] = "approved"

\* isFileResolved(filePath)
isFileResolved(st, filePath) ==
  /\ filePath \in DOMAIN st
  /\ DOMAIN st[filePath] # {}
  /\ \A id \in DOMAIN st[filePath] : st[filePath][id] = "approved"

ApproveEntry(filePath, hunkId) ==
  [type |-> "approve", filePath |-> filePath, hunkId |-> hunkId, forwardPatch |-> ""]

RejectEntry(filePath, hunkId, forwardPatch) ==
  [type |-> "reject", filePath |-> filePath, hunkId |-> hunkId, forwardPatch |-> forwardPatch]

\* an approve that tracks whatever identity it is given
approveUntracked(st, stack, filePath, hunkId) ==
  <<MapSet(st, filePath,
           MapSet(IF filePath \in DOMAIN st THEN st[filePath] ELSE <<>>, hunkId, "approved")),
    Append(stack, ApproveEntry(filePath, hunkId))>>

\* an approve that marks every identity of the path and pushes its one record
approveWholeFile(st, stack, filePath, hunkId) ==
  IF filePath \notin DOMAIN st \/ hunkId \notin DOMAIN st[filePath]
  THEN <<st, stack>>
  ELSE <<[st EXCEPT ![filePath] = [id \in DOMAIN @ |-> "approved"]],
         Append(stack, ApproveEntry(filePath, hunkId))>>

\* approve(filePath, hunkId): <<statuses, undoStack>> afterwards
approve(st, stack, filePath, hunkId) ==
  IF filePath \notin DOMAIN st \/ hunkId \notin DOMAIN st[filePath]
  THEN <<st, stack>>
  ELSE <<[st EXCEPT ![filePath] = MapSet(@, hunkId, "approved")],
         Append(stack, ApproveEntry(filePath, hunkId))>>

\* a loop that pushes a record for every tracked hunk, approved already or not
RECURSIVE approveAllLoopEveryHunk(_, _, _, _, _)
approveAllLoopEveryHunk(map, stack, filePath, hunks, i) ==
  IF i > Len(hunks) THEN <<map, stack>>
  ELSE IF hunks[i].id # "" /\ hunks[i].id \in DOMAIN map
       THEN approveAllLoopEveryHunk(MapSet(map, hunks[i].id, "approved"),
                                    Append(stack, ApproveEntry(filePath, hunks[i].id)),
                                    filePath, hunks, i + 1)
       ELSE approveAllLoopEveryHunk(map, stack, filePath, hunks, i + 1)

\* the loop of approveAll over file.hunks, from hunk i on: <<map, undoStack>>
RECURSIVE approveAllLoop(_, _, _, _, _)
approveAllLoop(map, stack, filePath, hunks, i) ==
  IF i > Len(hunks) THEN <<map, stack>>
  ELSE IF hunks[i].id # "" /\ hunks[i].id \in DOMAIN map /\ map[hunks[i].id] = "pending"
       THEN approveAllLoop(MapSet(map, hunks[i].id, "approved"),
                           Append(stack, ApproveEntry(filePath, hunks[i].id)),
                           filePath, hunks, i + 1)
       ELSE approveAllLoop(map, stack, filePath, hunks, i + 1)

\* approveAll(filePath, file): <<statuses, undoStack>> afterwards
approveAll(st, stack, filePath, file) ==
  IF filePath \notin DOMAIN st THEN <<st, stack>>
  ELSE LET r == approveAllLoop(st[filePath], stack, filePath, file.hunks, 1)
       IN <<[st EXCEPT ![filePath] = r[1]], r[2]>>

\* a search that settles for the top record, whatever it records
MatchingApproveTop(stack, filePath, hunkId) == Len(stack)

\* index of the last entry undoApprove removes, 0 if there is none
MatchingApprove(stack, filePath, hunkId) ==
  LET hits == {i \in DOMAIN stack :
                 /\ stack[i].type = "approve"
                 /\ stack[i].filePath = filePath
                 /\ stack[i].hunkId = hunkId}
  IN IF hits = {} THEN 0 ELSE CHOOSE i \in hits : \A j \in hits : j <= i

\* undoApprove(filePath, hunkId): <<statuses, undoStack>> afterwards
undoApprove(st, stack, filePath, hunkId) ==
  IF filePath \in DOMAIN st /\ hunkId \in DOMAIN st[filePath]
     /\ st[filePath][hunkId] = "approved"
  THEN LET i == MatchingApprove(stack, filePath, hunkId)
       IN <<[st EXCEPT ![filePath] = MapSet(@, hunkId, "pending")],
            IF i = 0 THEN stack ELSE Remove(stack, i)>>
  ELSE <<st, stack>>

\* a prune that forgets every file
pruneEveryFile(st, currentDiffFiles) == <<>>

\* pruneCommittedFiles(currentDiffFiles): the status map afterwards
pruneCommittedFiles(st, currentDiffFiles) ==
  LET currentPaths == {PathOf(f) : f \in currentDiffFiles}
  IN [p \in (DOMAIN st) \cap currentPaths |-> st[p]]

\* a lookup that falls back to the first hunk when no hunk has the id
FindHunkOrFirst(file, hunkId) ==
  LET hits == {i \in DOMAIN file.hunks : file.hunks[i].id = hunkId}
  IN IF hits = {} THEN (IF file.hunks = <<>> THEN 0 ELSE 1)
     ELSE CHOOSE i \in hits : \A j \in hits : i <= j

\* file.hunks.find((h) => h.id === hunkId): its index, 0 if there is none
FindHunk(file, hunkId) ==
  LET hits == {i \in DOMAIN file.hunks : file.hunks[i].id = hunkId}
  IN IF hits = {} THEN 0 ELSE CHOOSE i \in hits : \A j \in hits : i <= j

\* rejectAll: the first pending hunk of currentFile, 0 if there is none
FirstPending(map, currentFile) ==
  LET hits == {i \in DOMAIN currentFile.hunks :
                 /\ currentFile.hunks[i].id # ""
                 /\ currentFile.hunks[i].id \in DOMAIN map
                 /\ map[currentFile.hunks[i].id] = "pending"}
  IN IF hits = {} THEN 0 ELSE CHOOSE i \in hits : \A j \in hits : i <= j

(***************************************************************************)
(* The state machine.  Engine calls run one at a time (the caller          *)
(* serialises them); reject, rejectAll and undo are suspended at their     *)
(* awaits, where git acts on the working tree.                             *)
(***************************************************************************)
\* `before` is history: for an undo() that directly follows a reject that returned a
\* File or null after its git calls, the working tree that reject began on.
NoCall ==
  [op |-> "none", filePath |-> "", hunkId |-> "", file |-> <<>>, current |-> <<>>, patch |-> "",
   before |-> <<>>]

Call(op, filePath, hunkId, file) ==
  [op |-> op, filePath |-> filePath, hunkId |-> hunkId, file |-> file, current |-> <<>>,
   patch |-> "", before |-> <<>>]

NoResult == [kind |-> "none", value |-> <<>>]

\* a returned value v is <<v>>; null and void are <<>>
Return(value) == [kind |-> "return", value |-> value]

Throw == [kind |-> "throw", value |-> <<>>]

Snapshot ==
  [statuses |-> statuses, undoStack |-> undoStack, storage |-> storage, worktree |-> worktree]

NoSnapshot == [statuses |-> <<>>, undoStack |-> <<>>, storage |-> <<>>, worktree |-> <<>>]

GitCall(fn, arg) == [fn |-> fn, arg |-> arg]

\* The DiffFile a caller holds for a path: the one git lists for the working tree.
Listed(p) == InsertedCount(worktree[p]) > 0

CurrentFile(p) == DiffFiles[p][worktree[p]]

\* ids a caller can name for a path: those of the listed file and those tracked
KnownIds(p) ==
  (IF Listed(p) THEN HunkIds(CurrentFile(p)) ELSE {})
    \cup (IF p \in DOMAIN statuses THEN DOMAIN statuses[p] ELSE {})

Init ==
  /\ worktree = [p \in Paths |-> HeadLines]
  /\ edits = 0
  /\ statuses = <<>>
  /\ undoStack = <<>>
  /\ storage = <<>>
  /\ pc = "idle"
  /\ call = NoCall
  /\ gitLog = <<>>
  /\ result = NoResult
  /\ pre = NoSnapshot
  /\ treeFiles = <<>>
  /\ webviewFile = <<>>

\* The user inserts a line into a file of the working tree.
Edit(p, k, c) ==
  /\ pc = "idle"
  /\ edits < MaxInserted
  /\ edits' = edits + 1
  /\ worktree' = [worktree EXCEPT ![p] = InsertAfter(@, k, <<c>>)]
  /\ call' = NoCall
  /\ result' = NoResult
  /\ gitLog' = <<>>
  /\ pre' = NoSnapshot
  /\ UNCHANGED <<statuses, undoStack, storage, pc>>
  /\ UNCHANGED <<treeFiles, webviewFile>>

\* new StateManager(git, storage) after a restart of the extension host
Restart ==
  /\ pc = "idle"
  /\ statuses' = restoreFromStorage(storage)
  /\ undoStack' = <<>>
  /\ call' = Call("restart", "", "", <<>>)
  /\ result' = Return(<<>>)
  /\ gitLog' = <<>>
  /\ pre' = Snapshot
  /\ UNCHANGED <<edits, worktree, storage, pc>>
  /\ UNCHANGED <<treeFiles, webviewFile>>

SyncStatuses(p) ==
  /\ pc = "idle"
  /\ Listed(p)
  /\ statuses' = syncStatuses(statuses, CurrentFile(p))
  /\ storage' = persist(statuses')
  /\ call' = Call("syncStatuses", p, "", <<CurrentFile(p)>>)
  /\ result' = Return(<<syncStatusesResult(statuses, CurrentFile(p))>>)
  /\ gitLog' = <<>>
  /\ pre' = Snapshot
  /\ UNCHANGED <<edits, worktree, undoStack, pc>>
  /\ UNCHANGED <<treeFiles, webviewFile>>

Approve(p, id) ==
  /\ pc = "idle"
  /\ Len(undoStack) < MaxUndo
  /\ LET r == approve(statuses, undoStack, p, id)
     IN /\ statuses' = r[1]
        /\ undoStack' = r[2]
        /\ storage' = IF r[2] = undoStack THEN storage ELSE persist(r[1])
  /\ call' = Call("approve", p, id, <<>>)
  /\ result' = Return(<<>>)
  /\ gitLog' = <<>>
  /\ pre' = Snapshot
  /\ UNCHANGED <<edits, worktree, pc>>
  /\ UNCHANGED <<treeFiles, webviewFile>>

ApproveAll(p) ==
  /\ pc = "idle"
  /\ Listed(p)
  /\ Len(undoStack) + Len(CurrentFile(p).hunks) <= MaxUndo
  /\ LET r == approveAll(statuses, undoStack, p, CurrentFile(p))
     IN /\ statuses' = r[1]
        /\ undoStack' = r[2]
        /\ storage' = IF p \in DOMAIN statuses THEN persist(r[1]) ELSE storage
  /\ call' = Call("approveAll", p, "", <<CurrentFile(p)>>)
  /\ result' = Return(<<>>)
  /\ gitLog' = <<>>
  /\ pre' = Snapshot
  /\ UNCHANGED <<edits, worktree, pc>>
  /\ UNCHANGED <<treeFiles, webviewFile>>

UndoApprove(p, id) ==
  /\ pc = "idle"
  /\ LET r == undoApprove(statuses, undoStack, p, id)
     IN /\ statuses' = r[1]
        /\ undoStack' = r[2]
        /\ storage' = IF r[1] = statuses THEN storage ELSE persist(r[1])
  /\ call' = Call("undoApprove", p, id, <<>>)
  /\ result' = Return(<<>>)
  /\ gitLog' = <<>>
  /\ pre' = Snapshot
  /\ UNCHANGED <<edits, worktree, pc>>
  /\ UNCHANGED <<treeFiles, webviewFile>>

\* a clear that forgets the statuses and keeps the undo records
ClearStatusesOnly ==
  /\ pc = "idle"
  /\ statuses' = <<>>
  /\ undoStack' = undoStack
  /\ storage' = persist(statuses')
  /\ call' = Call("clear", "", "", <<>>)
  /\ result' = Return(<<>>)
  /\ gitLog' = <<>>
  /\ pre' = Snapshot
  /\ UNCHANGED <<edits, worktree, pc>>
  /\ UNCHANGED <<treeFiles, webviewFile>>

Clear ==
  /\ pc = "idle"
  /\ statuses' = <<>>
  /\ undoStack' = <<>>
  /\ storage' = persist(statuses')
  /\ call' = Call("clear", "", "", <<>>)
  /\ result' = Return(<<>>)
  /\ gitLog' = <<>>
  /\ pre' = Snapshot
  /\ UNCHANGED <<edits, worktree, pc>>
  /\ UNCHANGED <<treeFiles, webviewFile>>

\* a pruneCommittedFiles that also drops the undo records of the paths it removes
PruneCommittedFilesAndRecords ==
  /\ pc = "idle"
  /\ LET listed == getDiff(worktree)
     IN statuses' = pruneCommittedFiles(statuses, {listed[p] : p \in DOMAIN listed})
  /\ undoStack' = SelectSeq(undoStack, LAMBDA e : e.filePath \in DOMAIN getDiff(worktree))
  /\ storage' = IF DOMAIN statuses' # DOMAIN statuses THEN persist(statuses') ELSE storage
  /\ call' = Call("pruneCommittedFiles", "", "", <<>>)
  /\ result' = Return(<<>>)
  /\ gitLog' = <<>>
  /\ pre' = Snapshot
  /\ UNCHANGED <<edits, worktree, pc>>
  /\ UNCHANGED <<treeFiles, webviewFile>>

\* pruneCommittedFiles(fileTreeProvider.getFiles()) after a refresh
PruneCommittedFiles ==
  /\ pc = "idle"
  /\ LET listed == getDiff(worktree)
     IN statuses' = pruneCommittedFiles(statuses, {listed[p] : p \in DOMAIN listed})
  /\ storage' = IF DOMAIN statuses' # DOMAIN statuses THEN persist(statuses') ELSE storage
  /\ call' = Call("pruneCommittedFiles", "", "", <<>>)
  /\ result' = Return(<<>>)
  /\ gitLog' = <<>>
  /\ pre' = Snapshot
  /\ UNCHANGED <<edits, worktree, undoStack, pc>>
  /\ UNCHANGED <<treeFiles, webviewFile>>

\* reject(filePath, hunkId, file) up to its first await: a miss returns null, else the
\* patch is built and handed to git.applyReverse.
RejectCall(p, id) ==
  /\ pc = "idle"
  /\ Listed(p)
  /\ LET file == CurrentFile(p)
         i == FindHunk(file, id)
     IN IF i = 0
        THEN /\ call' = Call("reject", p, id, <<file>>)
             /\ result' = Return(<<>>)
             /\ gitLog' = <<>>
             /\ pc' = "idle"
        ELSE LET patch == buildPatch(file, file.hunks[i])
             IN /\ call' = [Call("reject", p, id, <<file>>) EXCEPT !.patch = patch,
                                                                 !.current = <<file>>]
                /\ result' = NoResult
                /\ gitLog' = <<GitCall("applyReverse", patch)>>
                /\ pc' = "applyReverse"
  /\ pre' = Snapshot
  /\ UNCHANGED <<edits, worktree, statuses, undoStack, storage>>
  /\ UNCHANGED <<treeFiles, webviewFile>>

\* One pass of rejectAll's while loop with currentFile = current[1] (<<>> is null):
\* the hunk id to reject next, "" when the loop ends.
NextPending(st, filePath, current) ==
  IF current = <<>> \/ filePath \notin DOMAIN st THEN ""
  ELSE LET i == FirstPending(st[filePath], current[1])
       IN IF i = 0 THEN "" ELSE current[1].hunks[i].id

\* rejectAll(filePath, file) up to its first await
RejectAllCall(p) ==
  /\ pc = "idle"
  /\ Listed(p)
  /\ LET file == CurrentFile(p)
         id == NextPending(statuses, p, <<file>>)
     IN IF id = ""
        THEN /\ call' = [Call("rejectAll", p, "", <<file>>) EXCEPT !.current = <<file>>]
             /\ result' = Return(<<file>>)
             /\ gitLog' = <<>>
             /\ pc' = "idle"
        ELSE LET patch == buildPatch(file, file.hunks[FindHunk(file, id)])
             IN /\ call' = [Call("rejectAll", p, id, <<file>>) EXCEPT !.patch = patch,
                                                                    !.current = <<file>>]
                /\ result' = NoResult
                /\ gitLog' = <<GitCall("applyReverse", patch)>>
                /\ pc' = "applyReverse"
  /\ pre' = Snapshot
  /\ UNCHANGED <<edits, worktree, statuses, undoStack, storage>>
  /\ UNCHANGED <<treeFiles, webviewFile>>

\* a reject that marks the identity 'rejected' in the map instead of deleting it
ApplyReverseOkMarkingRejected ==
  /\ pc = "applyReverse"
  /\ Len(undoStack) < MaxUndo
  /\ CanApplyReverse(worktree, call.patch)
  /\ worktree' = ApplyReverse(worktree, call.patch)
  /\ undoStack' = Append(undoStack, RejectEntry(call.filePath, call.hunkId, call.patch))
  /\ statuses' = IF call.filePath \in DOMAIN statuses
                 THEN [statuses EXCEPT ![call.filePath] = MapSet(@, call.hunkId, "rejected")]
                 ELSE statuses
  /\ gitLog' = Append(gitLog, GitCall("getFileDiff", call.filePath))
  /\ pc' = "getFileDiff"
  /\ UNCHANGED <<edits, storage, call, result, pre>>
  /\ UNCHANGED <<treeFiles, webviewFile>>

\* git apply -R succeeds; reject goes on to its second await, git.getFileDiff
ApplyReverseOk ==
  /\ pc = "applyReverse"
  /\ Len(undoStack) < MaxUndo
  /\ CanApplyReverse(worktree, call.patch)
  /\ worktree' = ApplyReverse(worktree, call.patch)
  /\ undoStack' = Append(undoStack, RejectEntry(call.filePath, call.hunkId, call.patch))
  /\ statuses' = IF call.filePath \in DOMAIN statuses
                 THEN [statuses EXCEPT ![call.filePath] = MapDelete(@, call.hunkId)]
                 ELSE statuses
  /\ gitLog' = Append(gitLog, GitCall("getFileDiff", call.filePath))
  /\ pc' = "getFileDiff"
  /\ UNCHANGED <<edits, storage, call, result, pre>>
  /\ UNCHANGED <<treeFiles, webviewFile>>

\* a reject that has pushed its record by the time git apply -R fails
ApplyReverseFailAfterPush ==
  /\ pc = "applyReverse"
  /\ Len(undoStack) < MaxUndo
  /\ undoStack' = Append(undoStack, RejectEntry(call.filePath, call.hunkId, call.patch))
  /\ result' = Throw
  /\ pc' = "idle"
  /\ UNCHANGED <<edits, worktree, statuses, storage, call, gitLog, pre>>
  /\ UNCHANGED <<treeFiles, webviewFile>>

\* git apply -R fails: the rejection propagates out of reject and rejectAll
ApplyReverseFail ==
  /\ pc = "applyReverse"
  /\ result' = Throw
  /\ pc' = "idle"
  /\ UNCHANGED <<edits, worktree, statuses, undoStack, storage, call, gitLog, pre>>
  /\ UNCHANGED <<treeFiles, webviewFile>>

\* a loop that keeps building its patches from the File that rejectAll was given
GetFileDiffOkFromFirstFile ==
  /\ pc = "getFileDiff"
  /\ LET freshFiles == getFileDiff(worktree, call.filePath)
         st == IF freshFiles = <<>>
               THEN [p \in (DOMAIN statuses) \ {call.filePath} |-> statuses[p]]
               ELSE syncStatuses(statuses, freshFiles[1])
         id == IF call.op = "rejectAll" THEN NextPending(st, call.filePath, freshFiles) ELSE ""
     IN /\ statuses' = st
        /\ storage' = persist(st)
        /\ IF id = ""
           THEN /\ result' = Return(freshFiles)
                /\ call' = [call EXCEPT !.current = freshFiles]
                /\ gitLog' = gitLog
                /\ pc' = "idle"
           ELSE LET file == IF FindHunk(call.file[1], id) # 0 THEN call.file[1] ELSE freshFiles[1]
                    patch == buildPatch(file, file.hunks[FindHunk(file, id)])
                IN /\ result' = NoResult
                   /\ call' = [call EXCEPT !.current = freshFiles, !.hunkId = id,
                                           !.patch = patch]
                   /\ gitLog' = Append(gitLog, GitCall("applyReverse", patch))
                   /\ pc' = "applyReverse"
  /\ UNCHANGED <<edits, worktree, undoStack, pre>>
  /\ UNCHANGED <<treeFiles, webviewFile>>

\* git diff answers: reject ends; rejectAll takes the next pass of its loop
GetFileDiffOk ==
  /\ pc = "getFileDiff"
  /\ LET freshFiles == getFileDiff(worktree, call.filePath)
         st == IF freshFiles = <<>>
               THEN [p \in (DOMAIN statuses) \ {call.filePath} |-> statuses[p]]
               ELSE syncStatuses(statuses, freshFiles[1])
         id == IF call.op = "rejectAll" THEN NextPending(st, call.filePath, freshFiles) ELSE ""
     IN /\ statuses' = st
        /\ storage' = persist(st)
        /\ IF id = ""
           THEN /\ result' = Return(freshFiles)
                /\ call' = [call EXCEPT !.current = freshFiles]
                /\ gitLog' = gitLog
                /\ pc' = "idle"
           ELSE LET file == freshFiles[1]
                    patch == buildPatch(file, file.hunks[FindHunk(file, id)])
                IN /\ result' = NoResult
                   /\ call' = [call EXCEPT !.current = freshFiles, !.hunkId = id,
                                           !.patch = patch]
                   /\ gitLog' = Append(gitLog, GitCall("applyReverse", patch))
                   /\ pc' = "applyReverse"
  /\ UNCHANGED <<edits, worktree, undoStack, pre>>
  /\ UNCHANGED <<treeFiles, webviewFile>>

\* git diff fails
GetFileDiffFail ==
  /\ pc = "getFileDiff"
  /\ result' = Throw
  /\ pc' = "idle"
  /\ UNCHANGED <<edits, worktree, statuses, undoStack, storage, call, gitLog, pre>>
  /\ UNCHANGED <<treeFiles, webviewFile>>

\* an undo that resets every identity of the entry's path
undoApproveEntryWholeFile(st, entry) ==
  IF entry.filePath \in DOMAIN st /\ entry.hunkId \in DOMAIN st[entry.filePath]
  THEN [st EXCEPT ![entry.filePath] = [id \in DOMAIN @ |-> "pending"]]
  ELSE st

\* undo() of an approve entry: the status map afterwards
undoApproveEntry(st, entry) ==
  IF entry.filePath \in DOMAIN st /\ entry.hunkId \in DOMAIN st[entry.filePath]
  THEN [st EXCEPT ![entry.filePath] = MapSet(@, entry.hunkId, "pending")]
  ELSE st

\* undo() up to its await (an approve entry, or an empty stack, has none)
Undo ==
  /\ pc = "idle"
  /\ pre' = Snapshot
  /\ IF undoStack = <<>>
     THEN /\ call' = Call("undo", "", "", <<>>)
          /\ result' = Return(<<>>)
          /\ gitLog' = <<>>
          /\ pc' = "idle"
          /\ UNCHANGED <<statuses, undoStack, storage>>
     ELSE LET entry == undoStack[Len(undoStack)]
          IN /\ undoStack' = SubSeq(undoStack, 1, Len(undoStack) - 1)
             /\ call' = [Call("undo", entry.filePath, entry.hunkId, <<>>) EXCEPT
                           !.patch = entry.forwardPatch,
                           !.before = IF /\ call.op = "reject"
                                         /\ result.kind = "return"
                                         /\ gitLog # <<>>
                                      THEN <<pre.worktree>> ELSE <<>>]
             /\ IF entry.type = "approve"
                THEN /\ statuses' = undoApproveEntry(statuses, entry)
                     /\ storage' = persist(statuses')
                     /\ result' = Return(<<[filePath |-> entry.filePath,
                                            undoneType |-> entry.type]>>)
                     /\ gitLog' = <<>>
                     /\ pc' = "idle"
                ELSE /\ entry.forwardPatch # ""
                     /\ gitLog' = <<GitCall("applyForward", entry.forwardPatch)>>
                     /\ result' = NoResult
                     /\ pc' = "applyForward"
                     /\ UNCHANGED <<statuses, storage>>
  /\ UNCHANGED <<worktree, edits>>
  /\ UNCHANGED <<treeFiles, webviewFile>>

\* git apply succeeds: undo persists and returns
ApplyForwardOk ==
  /\ pc = "applyForward"
  /\ CanApplyForward(worktree, call.patch)
  /\ worktree' = ApplyForward(worktree, call.patch)
  /\ storage' = persist(statuses)
  /\ result' = Return(<<[filePath |-> call.filePath, undoneType |-> "reject"]>>)
  /\ pc' = "idle"
  /\ UNCHANGED <<edits, statuses, undoStack, call, gitLog, pre>>
  /\ UNCHANGED <<treeFiles, webviewFile>>

\* git apply fails: the rejection propagates out of undo
ApplyForwardFail ==
  /\ pc = "applyForward"
  /\ result' = Throw
  /\ pc' = "idle"
  /\ UNCHANGED <<edits, worktree, statuses, undoStack, storage, call, gitLog, pre>>
  /\ UNCHANGED <<treeFiles, webviewFile>>

Next ==
  \/ \E p \in Paths, k \in 0..MaxLines, c \in Contents : k <= Len(worktree[p]) /\ Edit(p, k, c)
  \/ Restart
  \/ \E p \in Paths : SyncStatuses(p)
  \/ \E p \in Paths : \E id \in KnownIds(p) : Approve(p, id)
  \/ \E p \in Paths : ApproveAll(p)
  \/ \E p \in Paths : \E id \in KnownIds(p) : UndoApprove(p, id)
  \/ \E p \in Paths : \E id \in KnownIds(p) : RejectCall(p, id)
  \/ \E p \in Paths : RejectAllCall(p)
  \/ ApplyReverseOk
  \/ ApplyReverseFail
  \/ GetFileDiffOk
  \/ GetFileDiffFail
  \/ Undo
  \/ ApplyForwardOk
  \/ ApplyForwardFail
  \/ Clear
  \/ PruneCommittedFiles

Spec == Init /\ [][Next]_vars

(***************************************************************************)
(* A review that begins on an edited file: one path holds any content of   *)
(* BatchHead with up to BatchInserted lines inserted, already reconciled,  *)
(* every hunk pending or approved (approvals restored from storage, so the *)
(* undo stack is empty).                                                   *)
(***************************************************************************)
BatchPath == "a.txt"

InitBatch ==
  /\ \E wt \in WithInserted(BatchHead, BatchInserted) \ {BatchHead} :
       /\ worktree = [p \in Paths |-> IF p = BatchPath THEN wt ELSE BatchHead]
       /\ edits = InsertedCount(wt)
       /\ \E m \in [HunkIds(DiffFiles[BatchPath][wt]) -> {"pending", "approved"}] :
            statuses = [p \in {BatchPath} |-> m]
  /\ undoStack = <<>>
  /\ storage = persist(statuses)
  /\ pc = "idle"
  /\ call = NoCall
  /\ gitLog = <<>>
  /\ result = NoResult
  /\ pre = NoSnapshot
  /\ treeFiles = <<>>
  /\ webviewFile = <<>>

NextBatch ==
  \/ \E p \in Paths : SyncStatuses(p)
  \/ \E p \in Paths : \E id \in KnownIds(p) : RejectCall(p, id)
  \/ \E p \in Paths : RejectAllCall(p)
  \/ ApplyReverseOk
  \/ ApplyReverseFail
  \/ GetFileDiffOk
  \/ GetFileDiffFail
  \/ Undo
  \/ ApplyForwardOk
  \/ ApplyForwardFail

SpecBatch == InitBatch /\ [][NextBatch]_vars

\* every git call that is awaited returns or throws: the promise settles
SpecBatchFair ==
  /\ SpecBatch
  /\ WF_vars(ApplyReverseOk \/ ApplyReverseFail)
  /\ WF_vars(GetFileDiffOk \/ GetFileDiffFail)
  /\ WF_vars(ApplyForwardOk \/ ApplyForwardFail)

(***************************************************************************)
(* The handlers of the extension.  webview.onDidReceiveMessage, the file   *)
(* watcher's timer and the tree view call their listeners as events come:  *)
(* a listener that is suspended at an await of git does not hold back the  *)
(* next one.  A listener without an await runs to its end in one step.     *)
(***************************************************************************)
\* handleWebviewMessage, command 'approve', received while a call is suspended
ApproveMessage(p, id) ==
  /\ pc # "idle"
  /\ Len(undoStack) < MaxUndo
  /\ LET r == approve(statuses, undoStack, p, id)
     IN /\ r[2] # undoStack
        /\ statuses' = r[1]
        /\ undoStack' = r[2]
        /\ storage' = persist(r[1])
  /\ UNCHANGED <<edits, worktree, pc, call, gitLog, result, pre>>
  /\ UNCHANGED <<treeFiles, webviewFile>>

\* getTreeItem(element) for a file of the tree, rendered while a call is suspended: a
\* file that is not resolved is reconciled
TreeRender(p) ==
  /\ pc # "idle"
  /\ Listed(p)
  /\ ~isFileResolved(statuses, p)
  /\ statuses' = syncStatuses(statuses, CurrentFile(p))
  /\ statuses' # statuses
  /\ storage' = persist(statuses')
  /\ UNCHANGED <<edits, worktree, undoStack, pc, call, gitLog, result, pre>>
  /\ UNCHANGED <<treeFiles, webviewFile>>

\* the watcher's timer fires after git has changed a file, while a call is suspended:
\* refresh(), then pruneCommittedFiles(getFiles())
DebouncedRefresh ==
  /\ pc # "idle"
  /\ LET listed == getDiff(worktree)
     IN statuses' = pruneCommittedFiles(statuses, {listed[p] : p \in DOMAIN listed})
  /\ DOMAIN statuses' # DOMAIN statuses
  /\ storage' = persist(statuses')
  /\ UNCHANGED <<edits, worktree, undoStack, pc, call, gitLog, result, pre>>
  /\ UNCHANGED <<treeFiles, webviewFile>>

\* The review is under way on one file: any content of HeadLines with up to MaxInserted
\* lines inserted, reconciled, every hunk pending or approved.
InitHandlers ==
  /\ \E wt \in WithInserted(HeadLines, MaxInserted) \ {HeadLines} :
       /\ worktree = [p \in Paths |-> IF p = BatchPath THEN wt ELSE HeadLines]
       /\ edits = InsertedCount(wt)
       /\ \E m \in [HunkIds(DiffFiles[BatchPath][wt]) -> {"pending", "approved"}] :
            statuses = [p \in {BatchPath} |-> m]
  /\ undoStack = <<>>
  /\ storage = persist(statuses)
  /\ pc = "idle"
  /\ call = NoCall
  /\ gitLog = <<>>
  /\ result = NoResult
  /\ pre = NoSnapshot
  /\ treeFiles = <<>>
  /\ webviewFile = <<>>

NextHandlers ==
  \/ \E p \in Paths : \E id \in KnownIds(p) : RejectCall(p, id)
  \/ \E p \in Paths : RejectAllCall(p)
  \/ ApplyReverseOk
  \/ ApplyReverseFail
  \/ GetFileDiffOk
  \/ GetFileDiffFail
  \/ Undo
  \/ ApplyForwardOk
  \/ ApplyForwardFail
  \/ \E p \in Paths : \E id \in KnownIds(p) : ApproveMessage(p, id)
  \/ \E p \in Paths : TreeRender(p)
  \/ DebouncedRefresh

SpecHandlers == InitHandlers /\ [][NextHandlers]_vars

(***************************************************************************)
(* parseDiff on texts: every text of up to MaxTextLines lines of DiffLines *)
(* after one of FileHeads is parsed, and every hunk of the result is       *)
(* assembled into a patch, as buildPatch does, and parsed again.           *)
(***************************************************************************)
MaxTextLines == 3

\* hunk headers of the grammar '@@ -a[,b] +c[,d] @@', and '@@' lines that are not
WellFormedHeaders == {"@@ -1,0 +1,1 @@", "@@ -1 +2 @@ fn"}

MalformedHeaders == {"@@ -1, +1 @@", "@@ -1 +1"}

DiffLines ==
  {"diff --git a/f b/f", "index 1..2", "--- a/f", "+++ b/f",
   "Binary files a/f and b/f differ", "+x", "-y", " c", "", "\\ No newline at end of file"}
    \cup WellFormedHeaders \cup MalformedHeaders

FileHeads == {<<>>, <<"diff --git a/f b/f">>, <<"diff --git a/f b/f", "--- a/f", "+++ b/f">>}

DiffTexts == {Join(h \o r, "\n") : h \in FileHeads, r \in SeqsUpTo(DiffLines, MaxTextLines)}

\* what a patch is parsed after: nothing, or the line that starts a file
PatchPrefixes == {"", "diff --git a/f b/f\n"}

InitParse ==
  /\ worktree = [p \in Paths |-> HeadLines]
  /\ edits = 0
  /\ statuses = <<>>
  /\ undoStack = <<>>
  /\ storage = <<>>
  /\ pc = "parseDiff"
  /\ \E diffText \in DiffTexts : call = [Call("parseDiff", "", "", <<>>) EXCEPT !.patch = diffText]
  /\ gitLog = <<>>
  /\ result = NoResult
  /\ pre = NoSnapshot
  /\ treeFiles = <<>>
  /\ webviewFile = <<>>

\* parseDiff(diffText), diffText in call.patch
ParseDiff ==
  /\ pc = "parseDiff"
  /\ result' = Return(<<parseDiff(call.patch)>>)
  /\ pc' = "idle"
  /\ UNCHANGED <<worktree, edits, statuses, undoStack, storage, call, gitLog, pre>>
  /\ UNCHANGED <<treeFiles, webviewFile>>

\* parseDiff(prefix + buildPatch(file, hunk)) for a hunk of a file that parseDiff gave:
\* call.file is the file, call.current the file with that hunk alone
ReparseHunk(f, h, prefix) ==
  /\ pc = "idle"
  /\ call.op = "parseDiff"
  /\ call.file = <<>>
  /\ f \in DOMAIN result.value[1]
  /\ h \in DOMAIN result.value[1][f].hunks
  /\ LET file == result.value[1][f]
         patch == prefix \o buildPatch(file, file.hunks[h])
     IN /\ call' = [Call("parseDiff", "", "", <<file>>) EXCEPT
                      !.current = <<[file EXCEPT !.hunks = <<file.hunks[h]>>]>>,
                      !.patch = patch]
        /\ result' = Return(<<parseDiff(patch)>>)
  /\ UNCHANGED <<worktree, edits, statuses, undoStack, storage, pc, gitLog, pre>>
  /\ UNCHANGED <<treeFiles, webviewFile>>

NextParse ==
  \/ ParseDiff
  \/ \E f, h \in 1..(MaxTextLines + 3), prefix \in PatchPrefixes : ReparseHunk(f, h, prefix)

SpecParse == InitParse /\ [][NextParse]_vars

(***************************************************************************)
(* splitHunks and computeHunkIds as getDiff / getFileDiff apply them to    *)
(* the hunks of a parsed file: hunks of up to MaxHunkLines lines.          *)
(***************************************************************************)
MaxHunkLines == 5

HunkLines ==
  {[type |-> "context", content |-> "h1"], [type |-> "add", content |-> "x"],
   [type |-> "remove", content |-> "x"], [type |-> "add", content |-> "y"]}

\* the line of the diff text that parseHunk read the line of the hunk from
RawLine(line) ==
  (IF line.type = "add" THEN "+" ELSE IF line.type = "remove" THEN "-" ELSE " ") \o line.content

\* the hunk parseHunk gives for the header '@@ -oldStart,n +newStart,m @@' and these lines
HunkOf(oldStart, newStart, lines) ==
  LET oldCount == Cardinality({k \in DOMAIN lines : lines[k].type # "add"})
      newCount == Cardinality({k \in DOMAIN lines : lines[k].type # "remove"})
      header == "@@ -" \o ToString(oldStart) \o "," \o ToString(oldCount)
                  \o " +" \o ToString(newStart) \o "," \o ToString(newCount) \o " @@"
  IN [oldStart |-> oldStart, oldCount |-> oldCount, newStart |-> newStart, newCount |-> newCount,
      header |-> header, lines |-> lines,
      rawLines |-> <<header>> \o [k \in DOMAIN lines |-> RawLine(lines[k])]]

\* the hunks of one file: a hunk of an existing file, the hunk of a new file, two hunks
SplitInputs ==
  {<<HunkOf(at[1], at[2], lines)>> : at \in {<<1, 1>>, <<3, 4>>}, lines \in SeqsUpTo(HunkLines, MaxHunkLines)}
    \cup {<<HunkOf(0, 1, lines)>> :
            lines \in SeqsUpTo({l \in HunkLines : l.type = "add"}, MaxHunkLines) \ {<<>>}}
    \cup {<<HunkOf(1, 1, first), HunkOf(7, 8, second)>> :
            first \in SeqsUpTo(HunkLines, 2), second \in SeqsUpTo(HunkLines, 2)}
    \cup {<<NewHunk(header, 0, 0, 0, 0)>> : header \in MalformedHeaders}

InitSplit ==
  /\ worktree = [p \in Paths |-> HeadLines]
  /\ edits = 0
  /\ statuses = <<>>
  /\ undoStack = <<>>
  /\ storage = <<>>
  /\ pc = "splitHunks"
  /\ \E p \in Paths, hunks \in SplitInputs :
       call = Call("splitHunks", p, "",
                   <<[oldPath |-> p, newPath |-> p, isBinary |-> FALSE, hunks |-> hunks]>>)
  /\ gitLog = <<>>
  /\ result = NoResult
  /\ pre = NoSnapshot
  /\ treeFiles = <<>>
  /\ webviewFile = <<>>

\* const hunks = splitHunks(f.hunks)
SplitHunks ==
  /\ pc = "splitHunks"
  /\ result' = Return(<<splitHunks(call.file[1].hunks)>>)
  /\ pc' = "computeHunkIds"
  /\ UNCHANGED <<worktree, edits, statuses, undoStack, storage, call, gitLog, pre>>
  /\ UNCHANGED <<treeFiles, webviewFile>>

\* const ids = computeHunkIds(filePath, hunks): call.current is the file with the
\* sub-hunks, the result the ids
ComputeHunkIds ==
  /\ pc = "computeHunkIds"
  /\ call' = [call EXCEPT !.op = "computeHunkIds",
                          !.current = <<[call.file[1] EXCEPT !.hunks = result.value[1]]>>]
  /\ result' = Return(<<computeHunkIds(PathOf(call.file[1]), result.value[1])>>)
  /\ pc' = "idle"
  /\ UNCHANGED <<worktree, edits, statuses, undoStack, storage, gitLog, pre>>
  /\ UNCHANGED <<treeFiles, webviewFile>>

NextSplit == SplitHunks \/ ComputeHunkIds

SpecSplit == InitSplit /\ [][NextSplit]_vars

(***************************************************************************)
(* The diff panel and the file tree (extension.ts, fileTreeProvider.ts,    *)
(* DiffPanelProvider): the webview names a hunk by its index in the File   *)
(* it displays, the handlers look the index up in FileTreeProvider.files.  *)
(* The specifications above hand the engine the fresh File of the path and *)
(* leave treeFiles and webviewFile alone.                                  *)
(***************************************************************************)
\* files.find((f) => (f.newPath || f.oldPath) === filePath), <<>> for undefined
FindFile(fs, filePath) == IF filePath \in DOMAIN fs THEN <<fs[filePath]>> ELSE <<>>

\* file?.hunks[hunkIndex]?.id, "" for undefined; hunkIndex counts from 1 here
HunkIdAt(file, hunkIndex) ==
  IF file # <<>> /\ hunkIndex \in DOMAIN file[1].hunks THEN file[1].hunks[hunkIndex].id ELSE ""

\* the File a webview displays, cut down to the hunk its message names
DisplayedHunk(p, hunkIndex) == <<[webviewFile[p][1] EXCEPT !.hunks = <<@[hunkIndex]>>]>>

InitPanel ==
  /\ worktree = [p \in Paths |-> HeadLines]
  /\ edits = 0
  /\ statuses = <<>>
  /\ undoStack = <<>>
  /\ storage = <<>>
  /\ pc = "idle"
  /\ call = NoCall
  /\ gitLog = <<>>
  /\ result = NoResult
  /\ pre = NoSnapshot
  /\ treeFiles = getDiff(worktree)
  /\ webviewFile = [p \in Paths |-> <<>>]

\* the timer of debouncedRefresh: fileTreeProvider.refresh(), then pruneCommittedFiles
WatcherRefresh ==
  /\ pc = "idle"
  /\ treeFiles' = getDiff(worktree)
  /\ treeFiles' # treeFiles
  /\ statuses' = pruneCommittedFiles(statuses, {treeFiles'[p] : p \in DOMAIN treeFiles'})
  /\ storage' = IF DOMAIN statuses' # DOMAIN statuses THEN persist(statuses') ELSE storage
  /\ call' = Call("pruneCommittedFiles", "", "", <<>>)
  /\ result' = Return(<<>>)
  /\ gitLog' = <<>>
  /\ pre' = Snapshot
  /\ UNCHANGED <<edits, worktree, undoStack, pc, webviewFile>>

\* command diffReviewer.openFile on a tree item: syncStatuses(file), showFile(file, ...)
OpenFile(p) ==
  /\ pc = "idle"
  /\ p \in DOMAIN treeFiles
  /\ webviewFile[p] # <<treeFiles[p]>>
  /\ statuses' = syncStatuses(statuses, treeFiles[p])
  /\ storage' = persist(statuses')
  /\ webviewFile' = [webviewFile EXCEPT ![p] = <<treeFiles[p]>>]
  /\ call' = Call("syncStatuses", p, "", <<treeFiles[p]>>)
  /\ result' = Return(<<syncStatusesResult(statuses, treeFiles[p])>>)
  /\ gitLog' = <<>>
  /\ pre' = Snapshot
  /\ UNCHANGED <<edits, worktree, undoStack, pc, treeFiles>>

\* handlePanelFocus: refresh(), then syncStatuses and sendRefresh of the file if listed
PanelFocus(p) ==
  /\ pc = "idle"
  /\ webviewFile[p] # <<>>
  /\ treeFiles' = getDiff(worktree)
  /\ LET file == FindFile(treeFiles', p)
     IN IF file # <<>>
        THEN /\ statuses' = syncStatuses(statuses, file[1])
             /\ storage' = persist(statuses')
             /\ webviewFile' = [webviewFile EXCEPT ![p] = file]
             /\ call' = Call("syncStatuses", p, "", file)
             /\ result' = Return(<<syncStatusesResult(statuses, file[1])>>)
        ELSE /\ call' = Call("handlePanelFocus", p, "", <<>>)
             /\ result' = Return(<<>>)
             /\ UNCHANGED <<statuses, storage, webviewFile>>
  /\ <<treeFiles', webviewFile'>> # <<treeFiles, webviewFile>>
  /\ gitLog' = <<>>
  /\ pre' = Snapshot
  /\ UNCHANGED <<edits, worktree, undoStack, pc>>

\* handleWebviewMessage, command 'approve' with the index of a hunk the webview displays;
\* updateHunk changes the status the webview shows, not its File; then refresh()
WebviewApprove(p, hunkIndex) ==
  /\ pc = "idle"
  /\ Len(undoStack) < MaxUndo
  /\ webviewFile[p] # <<>>
  /\ hunkIndex \in DOMAIN webviewFile[p][1].hunks
  /\ LET file == FindFile(treeFiles, p)
         hunkId == HunkIdAt(file, hunkIndex)
         r == IF hunkId = "" THEN <<statuses, undoStack>> ELSE approve(statuses, undoStack, p, hunkId)
     IN /\ statuses' = r[1]
        /\ undoStack' = r[2]
        /\ storage' = IF r[2] = undoStack THEN storage ELSE persist(r[1])
        /\ call' = [Call("approve", p, hunkId, file) EXCEPT !.current = DisplayedHunk(p, hunkIndex)]
        /\ treeFiles' = IF hunkId = "" THEN treeFiles ELSE getDiff(worktree)
  /\ result' = Return(<<>>)
  /\ gitLog' = <<>>
  /\ pre' = Snapshot
  /\ UNCHANGED <<edits, worktree, pc, webviewFile>>

\* handleWebviewMessage, command 'undo' with the index of a hunk the webview displays;
\* updateHunk changes the status the webview shows, not its File; then refresh()
WebviewUndo(p, hunkIndex) ==
  /\ pc = "idle"
  /\ webviewFile[p] # <<>>
  /\ hunkIndex \in DOMAIN webviewFile[p][1].hunks
  /\ LET file == FindFile(treeFiles, p)
         hunkId == HunkIdAt(file, hunkIndex)
         r == IF hunkId = "" THEN <<statuses, undoStack>> ELSE undoApprove(statuses, undoStack, p, hunkId)
     IN /\ statuses' = r[1]
        /\ undoStack' = r[2]
        /\ storage' = IF r[1] = statuses THEN storage ELSE persist(r[1])
        /\ call' = [Call("undoApprove", p, hunkId, file) EXCEPT !.current = DisplayedHunk(p, hunkIndex)]
        /\ treeFiles' = IF hunkId = "" THEN treeFiles ELSE getDiff(worktree)
  /\ result' = Return(<<>>)
  /\ gitLog' = <<>>
  /\ pre' = Snapshot
  /\ UNCHANGED <<edits, worktree, pc, webviewFile>>

NextPanel ==
  \/ \E p \in Paths, k \in 0..MaxLines, c \in Contents : k <= Len(worktree[p]) /\ Edit(p, k, c)
  \/ WatcherRefresh
  \/ \E p \in Paths : OpenFile(p)
  \/ \E p \in Paths : PanelFocus(p)
  \/ \E p \in Paths, hunkIndex \in 1..MaxLines : WebviewApprove(p, hunkIndex)
  \/ \E p \in Paths, hunkIndex \in 1..MaxLines : WebviewUndo(p, hunkIndex)

SpecPanel == InitPanel /\ [][NextPanel]_vars

(***************************************************************************)
(* Properties of the engine.  A property about a call reads the state the  *)
(* call left (call, result, gitLog) against the state it began in (pre).   *)
(***************************************************************************)
\* the status map of a path, empty when the path is not tracked
StatusMap(st, p) == IF p \in DOMAIN st THEN st[p] ELSE <<>>

\* the status of an identity, "untracked" when the map has no entry for it
StatusOf(st, p, id) ==
  IF p \in DOMAIN st /\ id \in DOMAIN st[p] THEN st[p][id] ELSE "untracked"

\* the status maps of all paths but p are those of `before`
OtherPathsAsIn(before, p) ==
  /\ (DOMAIN statuses) \ {p} = (DOMAIN before) \ {p}
  /\ \A q \in (DOMAIN statuses) \ {p} : statuses[q] = before[q]

IdsOf(hunks) == [i \in DOMAIN hunks |-> hunks[i].id]

\* C1: after syncStatuses(file) the status map of the file's path has exactly the
\* identities of file.hunks as keys; an identity that was in the map before keeps its
\* status, a new identity is pending, an identity no longer in the file is gone; the
\* returned array has one entry per hunk of file.hunks, in their order.
C1_SyncContract ==
  (pc = "idle" /\ call.op = "syncStatuses") =>
    LET file == call.file[1]
        p == call.filePath
        before == StatusMap(pre.statuses, p)
    IN /\ p \in DOMAIN statuses
       /\ DOMAIN statuses[p] = Range(IdsOf(file.hunks))
       /\ \A id \in DOMAIN statuses[p] :
            statuses[p][id] = IF id \in DOMAIN before THEN before[id] ELSE "pending"
       /\ result.kind = "return"
       /\ Len(result.value[1]) = Len(file.hunks)
       /\ \A i \in DOMAIN file.hunks : result.value[1][i] = statuses[p][file.hunks[i].id]

\* a reconciliation that kept an approved identity, admitted a new one as pending and
\* returned both
C1_Witness ==
  /\ pc = "idle"
  /\ call.op = "syncStatuses"
  /\ call.filePath \in DOMAIN pre.statuses
  /\ \E id \in DOMAIN pre.statuses[call.filePath] :
       pre.statuses[call.filePath][id] = "approved" /\ StatusOf(statuses, call.filePath, id) = "approved"
  /\ \E id \in DOMAIN statuses[call.filePath] : id \notin DOMAIN pre.statuses[call.filePath]
  /\ Len(result.value[1]) = 2

\* file2 is file1 with one new hunk, its hunk i, that stands before a hunk of file1;
\* every hunk of file1 is in file2 with the same old-side position and the same lines
InsertedEarlier(file1, file2, i) ==
  /\ Len(file2.hunks) = Len(file1.hunks) + 1
  /\ i < Len(file2.hunks)
  /\ \A j \in DOMAIN file1.hunks :
       LET h == file2.hunks[IF j < i THEN j ELSE j + 1]
       IN h.oldStart = file1.hunks[j].oldStart /\ h.lines = file1.hunks[j].lines

\* C2: when a file was reconciled and an edit inserts a new hunk before one of its
\* hunks, the next reconciliation of the file leaves every hunk that was approved still
\* approved and gives the inserted hunk pending status.
C2_ApprovalSurvivesInsertion ==
  [][\A p \in Paths :
       (/\ edits' = edits + 1
        /\ worktree'[p] # worktree[p]
        /\ Listed(p)
        /\ DOMAIN StatusMap(statuses, p) = HunkIds(CurrentFile(p)))
       => LET file1 == DiffFiles[p][worktree[p]]
              file2 == DiffFiles[p][worktree'[p]]
              second == syncStatusesResult(statuses', file2)
          IN \A i \in DOMAIN file2.hunks :
               InsertedEarlier(file1, file2, i) =>
                 /\ second[i] = "pending"
                 /\ \A j \in DOMAIN file1.hunks :
                      statuses[p][file1.hunks[j].id] = "approved"
                        => second[IF j < i THEN j ELSE j + 1] = "approved"]_vars

\* the identities of the hunks that are pending in the map, in file order
PendingIds(map, hunks) ==
  SelectSeq(IdsOf(hunks), LAMBDA id : id \in DOMAIN map /\ map[id] = "pending")

\* k calls of undo() on a stack whose k top records are approve records
RECURSIVE UndoTimes(_, _, _)
UndoTimes(st, stack, k) ==
  IF k = 0 THEN <<st, stack>>
  ELSE UndoTimes(undoApproveEntry(st, stack[Len(stack)]),
                 SubSeq(stack, 1, Len(stack) - 1), k - 1)

\* C3: approve on a tracked pending identity sets it to approved and pushes one approve
\* record; approveAll sets every pending identity of the file to approved and pushes one
\* approve record per newly approved hunk, in file order, none for a hunk that was
\* approved already; k calls of undo(), and no fewer, bring back the statuses and the
\* stack of before.
C3_ApproveRecords ==
  /\ (pc = "idle" /\ call.op = "approve"
        /\ StatusOf(pre.statuses, call.filePath, call.hunkId) = "pending") =>
       /\ OtherPathsAsIn(pre.statuses, call.filePath)
       /\ statuses[call.filePath] =
            [id \in DOMAIN pre.statuses[call.filePath] |->
               IF id = call.hunkId THEN "approved" ELSE pre.statuses[call.filePath][id]]
       /\ undoStack = Append(pre.undoStack,
                             [type |-> "approve", filePath |-> call.filePath,
                              hunkId |-> call.hunkId, forwardPatch |-> ""])
  /\ (pc = "idle" /\ call.op = "approveAll" /\ call.filePath \in DOMAIN pre.statuses) =>
       LET p == call.filePath
           before == pre.statuses[p]
           ids == PendingIds(before, call.file[1].hunks)
           k == Len(ids)
       IN /\ OtherPathsAsIn(pre.statuses, p)
          /\ statuses[p] =
               [id \in DOMAIN before |-> IF id \in Range(ids) THEN "approved" ELSE before[id]]
          /\ undoStack = pre.undoStack
                           \o [i \in 1..k |-> [type |-> "approve", filePath |-> p,
                                               hunkId |-> ids[i], forwardPatch |-> ""]]
          /\ UndoTimes(statuses, undoStack, k) = <<pre.statuses, pre.undoStack>>
          /\ \A m \in 0..(k - 1) :
               UndoTimes(statuses, undoStack, m) # <<pre.statuses, pre.undoStack>>

\* an approveAll over a file with a hunk approved before and a hunk newly approved
C3_Witness ==
  /\ pc = "idle"
  /\ call.op = "approveAll"
  /\ call.filePath \in DOMAIN pre.statuses
  /\ \E id \in DOMAIN pre.statuses[call.filePath] : pre.statuses[call.filePath][id] = "approved"
  /\ \E id \in DOMAIN pre.statuses[call.filePath] :
       pre.statuses[call.filePath][id] = "pending" /\ statuses[call.filePath][id] = "approved"
  /\ Len(undoStack) = Len(pre.undoStack) + 1

\* every line followed by a newline
RECURSIVE Terminated(_)
Terminated(ls) == IF ls = <<>> THEN "" ELSE ls[1] \o "\n" \o Terminated(Tail(ls))

\* the text C4 names for a file and one of its hunks
PatchText(file, hunk) ==
  Terminated(<<"--- a/" \o (IF file.oldPath # "" THEN file.oldPath ELSE file.newPath),
               "+++ b/" \o (IF file.newPath # "" THEN file.newPath ELSE file.oldPath)>>
               \o hunk.rawLines)

\* the hunk of the file passed to the call that has the id passed to it
NamedHunk == CHOOSE h \in Range(call.file[1].hunks) : h.id = call.hunkId

\* the status map once the id of the call is removed from the map it began with
WithoutRejected ==
  IF call.filePath \in DOMAIN pre.statuses
  THEN [pre.statuses EXCEPT ![call.filePath] = [id \in (DOMAIN @) \ {call.hunkId} |-> @[id]]]
  ELSE pre.statuses

\* C4: a successful reject first calls applyReverse, once, with '--- a/<oldPath or
\* newPath>', '+++ b/<newPath or oldPath>' and the sub-hunk's rawLines, every line
\* newline-terminated, the status map and the undo stack still as before; once that call
\* has returned the id is out of the status map and one reject record whose forwardPatch
\* is that same text is on the stack; then it calls getFileDiff(path), once, and
\* reconciles the File it gets.
C4_RejectOrder ==
  call.op = "reject" =>
    /\ pc = "applyReverse" =>
         /\ gitLog = <<[fn |-> "applyReverse", arg |-> PatchText(call.file[1], NamedHunk)]>>
         /\ statuses = pre.statuses
         /\ undoStack = pre.undoStack
    /\ (pc = "getFileDiff" \/ (pc = "idle" /\ result.kind = "return" /\ gitLog # <<>>)) =>
         /\ gitLog = <<[fn |-> "applyReverse", arg |-> PatchText(call.file[1], NamedHunk)],
                       [fn |-> "getFileDiff", arg |-> call.filePath]>>
         /\ undoStack = Append(pre.undoStack,
                               [type |-> "reject", filePath |-> call.filePath,
                                hunkId |-> call.hunkId, forwardPatch |-> gitLog[1].arg])
    /\ pc = "getFileDiff" => statuses = WithoutRejected
    /\ (pc = "idle" /\ result.kind = "return" /\ result.value # <<>>) =>
         LET fresh == result.value[1]
             p == call.filePath
             kept == StatusMap(WithoutRejected, p)
         IN /\ OtherPathsAsIn(pre.statuses, p)
            /\ DOMAIN statuses[p] = Range(IdsOf(fresh.hunks))
            /\ \A id \in DOMAIN statuses[p] :
                 statuses[p][id] = IF id \in DOMAIN kept THEN kept[id] ELSE "pending"

\* a reject that went through both calls and got a File with an approved hunk back
C4_Witness ==
  /\ pc = "idle"
  /\ call.op = "reject"
  /\ result.kind = "return"
  /\ Len(gitLog) = 2
  /\ result.value # <<>>
  /\ \E id \in DOMAIN statuses[call.filePath] : statuses[call.filePath][id] = "approved"
  /\ Len(undoStack) = Len(pre.undoStack) + 1

\* C5 as stated: a reject that returns has returned null if and only if the file has no
\* differences any more.
C5_NullIffNoDifferences ==
  (pc = "idle" /\ call.op = "reject" /\ result.kind = "return") =>
    (result.value = <<>> <=> InsertedCount(worktree[call.filePath]) = 0)

\* C5: a reject of an identity that is one of file.hunks returns null if and only if the
\* fresh diff of the file has no differences, and then the path is out of the status
\* map; in every other case it returns the fresh File, with which the status map is
\* reconciled.  A reject of an identity that is none of file.hunks returns null, calls
\* nothing and changes nothing.
C5_NullIffNoDifferencesWhenFound ==
  (pc = "idle" /\ call.op = "reject" /\ result.kind = "return") =>
    LET p == call.filePath
        found == \E h \in Range(call.file[1].hunks) : h.id = call.hunkId
    IN /\ found =>
            /\ result.value = <<>> <=> InsertedCount(worktree[p]) = 0
            /\ result.value = <<>> => p \notin DOMAIN statuses
            /\ result.value # <<>> =>
                 /\ result.value[1] = DiffFileOf(p, worktree[p])
                 /\ DOMAIN statuses[p] = Range(IdsOf(result.value[1].hunks))
       /\ ~found =>
            /\ result.value = <<>>
            /\ gitLog = <<>>
            /\ statuses = pre.statuses
            /\ undoStack = pre.undoStack
            /\ storage = pre.storage
            /\ worktree = pre.worktree

\* a reject that removed the last difference of a tracked file and returned null
C5_Witness ==
  /\ pc = "idle"
  /\ call.op = "reject"
  /\ result.kind = "return"
  /\ result.value = <<>>
  /\ Len(gitLog) = 2
  /\ call.filePath \in DOMAIN pre.statuses
  /\ call.filePath \notin DOMAIN statuses

\* C6: when applyReverse fails during reject the failure reaches the caller, and the
\* status map, the undo stack and the stored blob are as before the call; applyReverse
\* is the only call made.
C6_RejectFailureChangesNothing ==
  (pc = "idle" /\ call.op = "reject" /\ gitLog # <<>>
     /\ gitLog[Len(gitLog)].fn = "applyReverse") =>
    /\ result.kind = "throw"
    /\ Len(gitLog) = 1
    /\ statuses = pre.statuses
    /\ undoStack = pre.undoStack
    /\ storage = pre.storage

\* a failed reject of an approved hunk with a record on the stack
C6_Witness ==
  /\ pc = "idle"
  /\ call.op = "reject"
  /\ result.kind = "throw"
  /\ Len(gitLog) = 1
  /\ StatusOf(statuses, call.filePath, call.hunkId) = "approved"
  /\ undoStack # <<>>

\* the texts handed to applyReverse by the call, in order
ReversePatches ==
  LET calls == SelectSeq(gitLog, LAMBDA g : g.fn = "applyReverse")
  IN [i \in DOMAIN calls |-> calls[i].arg]

\* the lines a patch text adds
AddedLines(patch) == (CHOOSE f \in ReadPatch(patch) : TRUE).added

\* the changed lines of a hunk
HunkContent(hunk) == [k \in DOMAIN hunk.lines |-> hunk.lines[k].content]

\* C7: a rejectAll that returns, begun on a reconciled file with N pending hunks, has
\* made exactly N applyReverse calls, each with the lines of a hunk that was pending at
\* the start, and has returned null or a File none of whose hunks is pending.
C7_RejectAllCallsPerPending ==
  (/\ pc = "idle"
   /\ call.op = "rejectAll"
   /\ result.kind = "return"
   /\ DOMAIN StatusMap(pre.statuses, call.filePath) = Range(IdsOf(call.file[1].hunks))) =>
    LET p == call.filePath
        file == call.file[1]
        pending == {i \in DOMAIN file.hunks : pre.statuses[p][file.hunks[i].id] = "pending"}
    IN /\ Len(ReversePatches) = Cardinality(pending)
       /\ \A t \in Range(ReversePatches) :
            \E i \in pending : AddedLines(t) = HunkContent(file.hunks[i])
       /\ \/ result.value = <<>>
          \/ \A h \in Range(result.value[1].hunks) : StatusOf(statuses, p, h.id) # "pending"

\* the records the call has pushed
Pushed == SubSeq(undoStack, Len(pre.undoStack) + 1, Len(undoStack))

\* a rejectAll has ended on a reverse-apply: its k-th, with k the length of ReversePatches
BatchEndedOnReverseApply ==
  /\ pc = "idle"
  /\ call.op = "rejectAll"
  /\ gitLog # <<>>
  /\ gitLog[Len(gitLog)].fn = "applyReverse"

\* the hunk the loop of rejectAll was rejecting when the call ended
CurrentHunk == CHOOSE h \in Range(call.current[1].hunks) : h.id = call.hunkId

\* what C8 says of the error, of the records and of the k-th hunk
BatchFailureKeepsRecords ==
  /\ result.kind = "throw"
  /\ Len(gitLog) = 2 * Len(ReversePatches) - 1
  /\ SubSeq(undoStack, 1, Len(pre.undoStack)) = pre.undoStack
  /\ Len(Pushed) = Len(ReversePatches) - 1
  /\ \A i \in DOMAIN Pushed :
       /\ Pushed[i].type = "reject"
       /\ Pushed[i].filePath = call.filePath
       /\ Pushed[i].forwardPatch = ReversePatches[i]
  /\ gitLog[Len(gitLog)].arg = PatchText(call.current[1], CurrentHunk)
  /\ StatusOf(statuses, call.filePath, call.hunkId) = "pending"

\* C8 as stated: when the k-th reverse-apply of a rejectAll fails the error reaches the
\* caller, the k-1 earlier rejections stay committed, their identities out of the status
\* map and their records on the stack in order, and the k-th hunk is pending with no
\* record pushed for it.
C8_BatchFailureIdentitiesRemoved ==
  BatchEndedOnReverseApply =>
    /\ BatchFailureKeepsRecords
    /\ \A i \in DOMAIN Pushed : Pushed[i].hunkId \notin DOMAIN StatusMap(statuses, call.filePath)

\* the undo stack of before the call without its top record
Popped == SubSeq(pre.undoStack, 1, Len(pre.undoStack) - 1)

\* the top record of the undo stack of before the call
Top == pre.undoStack[Len(pre.undoStack)]

\* C9: undo() removes the top record of the undo stack and leaves the records below it
\* in place.  For an approve record it sets that identity to pending (an identity that
\* is not tracked stays untracked, which reads as pending) and changes no other status;
\* for a reject record it calls applyForward once, with the stored forwardPatch, and the
\* status map is as before; when it returns it returns the record's filePath and kind.
\* On an empty stack it returns null, calls nothing and changes nothing.
C9_UndoPopsTop ==
  call.op = "undo" =>
    /\ pre.undoStack = <<>> =>
         /\ pc = "idle"
         /\ result = [kind |-> "return", value |-> <<>>]
         /\ gitLog = <<>>
         /\ statuses = pre.statuses
         /\ undoStack = pre.undoStack
         /\ storage = pre.storage
         /\ worktree = pre.worktree
    /\ pre.undoStack # <<>> =>
         /\ undoStack = Popped
         /\ result.kind = "return" =>
              result.value = <<[filePath |-> Top.filePath, undoneType |-> Top.type]>>
         /\ Top.type = "approve" =>
              /\ pc = "idle"
              /\ result.kind = "return"
              /\ gitLog = <<>>
              /\ worktree = pre.worktree
              /\ DOMAIN statuses = DOMAIN pre.statuses
              /\ \A p \in DOMAIN statuses :
                   /\ DOMAIN statuses[p] = DOMAIN pre.statuses[p]
                   /\ \A id \in DOMAIN statuses[p] :
                        statuses[p][id] = IF p = Top.filePath /\ id = Top.hunkId
                                          THEN "pending" ELSE pre.statuses[p][id]
         /\ Top.type = "reject" =>
              /\ gitLog = <<[fn |-> "applyForward", arg |-> Top.forwardPatch]>>
              /\ statuses = pre.statuses
              /\ pc = "idle" => result.kind \in {"return", "throw"}

\* an undo of a reject record, with a record below it, that has returned
C9_Witness ==
  /\ pc = "idle"
  /\ call.op = "undo"
  /\ result.kind = "return"
  /\ Len(pre.undoStack) = 2
  /\ Top.type = "reject"
  /\ worktree # pre.worktree
  /\ statuses # <<>>

\* the statuses after the step are those of before the approve, but for the identity the
\* approve named
OthersAsBeforeApprove ==
  /\ DOMAIN statuses' = DOMAIN pre.statuses
  /\ \A p \in DOMAIN statuses' :
       /\ DOMAIN statuses'[p] = DOMAIN pre.statuses[p]
       /\ \A id \in DOMAIN statuses'[p] :
            (p # call.filePath \/ id # call.hunkId) => statuses'[p][id] = pre.statuses[p][id]

\* C10 as stated: approve(path, id) immediately followed by undo() leaves id pending (or
\* untracked, which reads as pending) and every other identity, of every file, with the
\* status it had before the approve.
C10_ApproveUndoRestores ==
  [][(pc = "idle" /\ call.op = "approve" /\ call'.op = "undo") =>
       /\ StatusOf(statuses', call.filePath, call.hunkId) \in {"pending", "untracked"}
       /\ OthersAsBeforeApprove]_vars

\* C10: approve(path, id) of an identity tracked for path, immediately followed by
\* undo(), leaves id pending and every other identity, of every file, with the status it
\* had before the approve.
C10_TrackedApproveUndoRestores ==
  [][(/\ pc = "idle"
      /\ call.op = "approve"
      /\ call'.op = "undo"
      /\ StatusOf(pre.statuses, call.filePath, call.hunkId) # "untracked") =>
       /\ StatusOf(statuses', call.filePath, call.hunkId) = "pending"
       /\ OthersAsBeforeApprove]_vars

\* an undo has just reverted the approve record on top of another file's approve record:
\* its identity is pending again, the other file's identity is still approved
C10_Witness ==
  /\ pc = "idle"
  /\ call.op = "undo"
  /\ Len(pre.undoStack) = 2
  /\ Top.type = "approve"
  /\ pre.statuses[Top.filePath][Top.hunkId] = "approved"
  /\ statuses[Top.filePath][Top.hunkId] = "pending"
  /\ \E p \in (DOMAIN statuses) \ {Top.filePath} :
       \E id \in DOMAIN statuses[p] : statuses[p][id] = "approved"

\* C11: an undo() that directly follows a successful reject and returns leaves the
\* working tree with the content it had before the reject, and the next reconciliation
\* of the file has the rejected identity pending.
C11_RejectUndoRestoresTree ==
  (pc = "idle" /\ call.op = "undo" /\ call.before # <<>> /\ result.kind = "return") =>
    /\ worktree = call.before[1]
    /\ Listed(call.filePath)
    /\ StatusOf(syncStatuses(statuses, CurrentFile(call.filePath)),
                call.filePath, call.hunkId) = "pending"

\* the approve records for (path, id) on a stack
ApproveRecords(stack, p, id) ==
  {i \in DOMAIN stack : stack[i] = ApproveEntry(p, id)}

\* the stack without its topmost approve record for (path, id)
WithoutTopmost(stack, p, id) ==
  LET top == CHOOSE i \in ApproveRecords(stack, p, id) :
               \A j \in ApproveRecords(stack, p, id) : j <= i
  IN SubSeq(stack, 1, top - 1) \o SubSeq(stack, top + 1, Len(stack))

\* what C12 says of undoApprove on an identity that is not approved
UndoApproveOfUnapprovedIsNoOp ==
  (call.op = "undoApprove" /\ StatusOf(pre.statuses, call.filePath, call.hunkId) # "approved") =>
    /\ statuses = pre.statuses
    /\ undoStack = pre.undoStack

\* undoApprove(path, id) on an approved identity sets it to pending and nothing else
UndoApproveSetsPending ==
  /\ DOMAIN statuses = DOMAIN pre.statuses
  /\ \A p \in DOMAIN statuses :
       /\ DOMAIN statuses[p] = DOMAIN pre.statuses[p]
       /\ \A id \in DOMAIN statuses[p] :
            statuses[p][id] = IF p = call.filePath /\ id = call.hunkId
                              THEN "pending" ELSE pre.statuses[p][id]

\* C12 as stated: undoApprove(path, id) on an approved identity sets it to pending and
\* removes exactly one record, the topmost approve record for (path, id), the other
\* records keeping their order; on an identity that is not approved it changes neither
\* the status map nor the undo stack.
C12_UndoApproveRemovesOne ==
  /\ UndoApproveOfUnapprovedIsNoOp
  /\ (call.op = "undoApprove" /\ StatusOf(pre.statuses, call.filePath, call.hunkId) = "approved") =>
       /\ UndoApproveSetsPending
       /\ ApproveRecords(pre.undoStack, call.filePath, call.hunkId) # {}
       /\ undoStack = WithoutTopmost(pre.undoStack, call.filePath, call.hunkId)

\* C12: undoApprove(path, id) on an approved identity sets it to pending and removes the
\* topmost approve record for (path, id) when the stack has one, the other records
\* keeping their order; when the stack has none (the approval was restored from storage
\* by a restart) the stack is unchanged.  On an identity that is not approved it changes
\* neither the status map nor the undo stack.
C12_UndoApproveRemovesTopmost ==
  /\ UndoApproveOfUnapprovedIsNoOp
  /\ (call.op = "undoApprove" /\ StatusOf(pre.statuses, call.filePath, call.hunkId) = "approved") =>
       /\ UndoApproveSetsPending
       /\ undoStack = IF ApproveRecords(pre.undoStack, call.filePath, call.hunkId) = {}
                      THEN pre.undoStack
                      ELSE WithoutTopmost(pre.undoStack, call.filePath, call.hunkId)

\* an undoApprove has removed the lower of two records, for an approved identity
C12_Witness ==
  /\ call.op = "undoApprove"
  /\ Len(pre.undoStack) = 2
  /\ pre.undoStack[1] = ApproveEntry(call.filePath, call.hunkId)
  /\ pre.undoStack[2] # pre.undoStack[1]
  /\ pre.statuses[call.filePath][call.hunkId] = "approved"
  /\ undoStack = <<pre.undoStack[2]>>
  /\ statuses[call.filePath][call.hunkId] = "pending"

\* the operations of the engine, as the call in progress names them
EngineOps ==
  {"syncStatuses", "approve", "approveAll", "reject", "rejectAll", "undo", "undoApprove",
   "clear", "pruneCommittedFiles"}

\* the stored blob holds (p, id) exactly when the status map has it approved, holds no
\* other value, and has no path without an entry
BlobIsApprovedProjection ==
  /\ \A p \in Paths : \A id \in KnownIds(p) \cup (IF p \in DOMAIN storage THEN DOMAIN storage[p] ELSE {}) :
       (p \in DOMAIN storage /\ id \in DOMAIN storage[p])
         <=> StatusOf(statuses, p, id) = "approved"
  /\ DOMAIN storage \subseteq Paths
  /\ \A p \in DOMAIN storage :
       /\ DOMAIN storage[p] # {}
       /\ \A id \in DOMAIN storage[p] : storage[p][id] = "approved"

\* C13: whenever an operation of the engine has returned or failed, the stored blob is
\* the projection of the status map onto its approved entries.
C13_BlobIsApprovedProjection ==
  (pc = "idle" /\ call.op \in EngineOps) => BlobIsApprovedProjection

\* C14: approvals made on a File survive a restart.  When an approve or approveAll on a
\* tracked file whose status map has the identities of the File is followed by the
\* construction of a new engine on the same storage, reconciling the new engine with the
\* same File gives every identity the status it had, approved for the approved ones and
\* pending for the others, in the map and in the returned array; and storage has no entry
\* for a path without an approved identity.
C14_PersistenceRoundTrip ==
  [][(/\ call.op \in {"approve", "approveAll"}
      /\ call'.op = "restart"
      /\ Listed(call.filePath)
      /\ DOMAIN StatusMap(statuses, call.filePath) = HunkIds(CurrentFile(call.filePath))) =>
       LET p == call.filePath
           file == CurrentFile(p)
           st == syncStatuses(statuses', file)
       IN /\ DOMAIN st[p] = HunkIds(file)
          /\ \A id \in HunkIds(file) : st[p][id] = statuses[p][id]
          /\ syncStatusesResult(statuses', file) =
               [i \in DOMAIN file.hunks |-> statuses[p][file.hunks[i].id]]
          /\ \A q \in Paths :
               (\A id \in DOMAIN StatusMap(statuses, q) : statuses[q][id] # "approved")
                 => q \notin DOMAIN storage']_vars

\* a new engine has been constructed after one of two hunks of a file was approved: it
\* knows the approved one only
C14_Witness ==
  /\ call.op = "restart"
  /\ pre.undoStack # <<>>
  /\ pre.undoStack[Len(pre.undoStack)].type = "approve"
  /\ \E p \in DOMAIN pre.statuses :
       /\ Listed(p)
       /\ DOMAIN pre.statuses[p] = HunkIds(CurrentFile(p))
       /\ \E id1, id2 \in DOMAIN pre.statuses[p] :
            /\ pre.statuses[p][id1] = "approved"
            /\ pre.statuses[p][id2] = "pending"
            /\ pre.undoStack[Len(pre.undoStack)] = ApproveEntry(p, id1)
            /\ p \in DOMAIN statuses
            /\ DOMAIN statuses[p] = {id1}
            /\ storage = statuses

\* C15: pruneCommittedFiles(currentFiles), with the files of the full diff, removes the
\* status map of every tracked path that is the path of none of them and leaves the map
\* of every other tracked path as it was; a removed path is not resolved and has no
\* statuses.
C15_PruneRemovesUnlisted ==
  call.op = "pruneCommittedFiles" =>
    LET currentFiles == getDiff(pre.worktree)
        currentPaths == {PathOf(currentFiles[q]) : q \in DOMAIN currentFiles}
    IN /\ DOMAIN statuses \subseteq DOMAIN pre.statuses
       /\ \A p \in DOMAIN pre.statuses :
            IF p \in currentPaths
            THEN p \in DOMAIN statuses /\ statuses[p] = pre.statuses[p]
            ELSE /\ p \notin DOMAIN statuses
                 /\ ~isFileResolved(statuses, p)
                 /\ getStatuses(statuses, p) = <<>>

\* a prune has removed one tracked path and kept another, which has a hunk
C15_Witness ==
  /\ call.op = "pruneCommittedFiles"
  /\ \E p, q \in DOMAIN pre.statuses :
       /\ p \notin DOMAIN statuses
       /\ q \in DOMAIN statuses
       /\ statuses[q] # <<>>
       /\ Listed(q)
       /\ ~Listed(p)

\* C16: isFileResolved(path) is true exactly when the path is tracked, has at least one
\* entry and has no entry that is not approved; so it is false for an unknown path and
\* for a path with a pending entry.
C16_ResolvedIffAllApproved ==
  \A p \in Paths :
    LET entries == DOMAIN StatusMap(statuses, p)
        approved == {id \in entries : statuses[p][id] = "approved"}
    IN /\ isFileResolved(statuses, p) <=> (p \in DOMAIN statuses /\ entries # {} /\ approved = entries)
       /\ p \notin DOMAIN statuses => ~isFileResolved(statuses, p)
       /\ (\E id \in entries : statuses[p][id] = "pending") => ~isFileResolved(statuses, p)
       /\ isFileResolved(statuses, p) => Len(getStatuses(statuses, p)) > 0

\* one file is resolved; the other is tracked, with no entry, and is not resolved
C16_Witness ==
  \E p, q \in DOMAIN statuses :
    /\ isFileResolved(statuses, p)
    /\ DOMAIN statuses[q] = {}
    /\ ~isFileResolved(statuses, q)

\* nothing but the call's own trace differs from the state the call began in
NoOpCall ==
  /\ pc = "idle"
  /\ result = [kind |-> "return", value |-> <<>>]
  /\ gitLog = <<>>
  /\ statuses = pre.statuses
  /\ undoStack = pre.undoStack
  /\ storage = pre.storage
  /\ worktree = pre.worktree

\* C17: approve with a path that is not tracked or an identity that is not in the path's
\* status map, and reject with an identity that no hunk of the file has, raise no error,
\* call git for nothing and leave the status map, the undo stack and the stored blob as
\* they were.
C17_LookupMissIsNoOp ==
  /\ (call.op = "approve" /\ StatusOf(pre.statuses, call.filePath, call.hunkId) = "untracked")
       => NoOpCall
  /\ (call.op = "reject" /\ \A h \in Range(call.file[1].hunks) : h.id # call.hunkId)
       => NoOpCall

\* an approve has named an identity of a file that is not tracked, while another file is
\* tracked and a record is on the stack
C17_Witness ==
  /\ call.op = "approve"
  /\ call.filePath \notin DOMAIN pre.statuses
  /\ call.hunkId \in HunkIds(CurrentFile(call.filePath))
  /\ pre.statuses # <<>>
  /\ pre.undoStack # <<>>

\* C18: while a reject, a rejectAll or an undo is suspended at a call of git, no other
\* call of the engine changes the status map of the file it works on, or the undo stack:
\* the next change is made by the suspended call, as it resumes.
C18_NoMutationWhileSuspended ==
  [][(pc # "idle" /\ pc' = pc) =>
       /\ StatusMap(statuses', call.filePath) = StatusMap(statuses, call.filePath)
       /\ (call.filePath \in DOMAIN statuses') = (call.filePath \in DOMAIN statuses)
       /\ undoStack' = undoStack]_vars

\* a parseDiff has returned: its text, line by line, and the files it gave
Parsed == pc = "idle" /\ call.op = "parseDiff"

TextLines == Split(call.patch, "\n")

ParsedFiles == result.value[1]

\* line m of the text starts a file that the line 'Binary' makes binary: no line between
\* the two ends the extended headers
StartsBinaryFile(lines, m) ==
  \E b \in (m + 1)..Len(lines) :
    /\ StartsWith(lines[b], "Binary")
    /\ \A j \in (m + 1)..(b - 1) :
         /\ ~StartsWith(lines[j], "diff --git ")
         /\ ~StartsWith(lines[j], "---")
         /\ ~StartsWith(lines[j], "@@")
         /\ ~StartsWith(lines[j], "Binary")

\* line k is an '@@' line of a file of the text that is not binary
IsHunkHeaderLine(lines, k) ==
  /\ StartsWith(lines[k], "@@")
  /\ \E m \in 1..(k - 1) :
       /\ StartsWith(lines[m], "diff --git ")
       /\ \A j \in (m + 1)..(k - 1) : ~StartsWith(lines[j], "diff --git ")
       /\ ~StartsBinaryFile(lines, m)

\* the '@@' lines of the files of the text, in order
HunkHeaderLines(lines) ==
  LET at == SortedSeq({k \in DOMAIN lines : IsHunkHeaderLine(lines, k)})
  IN [i \in DOMAIN at |-> lines[at[i]]]

\* C19: parseDiff returns, without throwing, for every text: the empty text, texts
\* without a 'diff --git' line, truncated and malformed ones.  An '@@' line that does not
\* match '@@ -a[,b] +c[,d] @@' gives a hunk with oldStart = oldCount = newStart =
\* newCount = 0, no lines and that line alone as rawLines, and the text after it is still
\* parsed: the hunks of the files are, in order, the '@@' lines of the files of the text.
C19_ParseIsTotal ==
  Parsed =>
    /\ result.kind = "return"
    /\ \A f \in DOMAIN ParsedFiles : \A h \in DOMAIN ParsedFiles[f].hunks :
         LET hunk == ParsedFiles[f].hunks[h]
         IN hunk.header \in MalformedHeaders =>
              /\ hunk.oldStart = 0 /\ hunk.oldCount = 0
              /\ hunk.newStart = 0 /\ hunk.newCount = 0
              /\ hunk.lines = <<>>
              /\ hunk.rawLines = <<hunk.header>>
    /\ Flatten([f \in DOMAIN ParsedFiles |->
                  [h \in DOMAIN ParsedFiles[f].hunks |-> ParsedFiles[f].hunks[h].header]])
         = HunkHeaderLines(TextLines)
    /\ (\A k \in DOMAIN TextLines : ~StartsWith(TextLines[k], "diff --git ")) => ParsedFiles = <<>>

\* a text whose file has a malformed '@@' line, then a hunk with a line
C19_Witness ==
  /\ Parsed
  /\ Len(ParsedFiles) = 1
  /\ Len(ParsedFiles[1].hunks) = 2
  /\ ParsedFiles[1].hunks[1].header \in MalformedHeaders
  /\ ParsedFiles[1].hunks[2].header \in WellFormedHeaders
  /\ ParsedFiles[1].hunks[2].lines # <<>>

\* the hunk of call.current has been assembled into a patch and the patch parsed
Reparsed == Parsed /\ call.current # <<>>

\* the parse gave one file with one hunk, whose lines are those of the hunk assembled
OneHunkWithSameLines ==
  /\ Len(ParsedFiles) = 1
  /\ Len(ParsedFiles[1].hunks) = 1
  /\ ParsedFiles[1].hunks[1].lines = call.current[1].hunks[1].lines

\* C20 as stated: for every hunk h of every file parseDiff gives, parseDiff on the patch
\* text assembled from the file's path lines and h.rawLines, alone, gives one file with
\* one hunk whose lines equal h.lines.
C20_PatchAloneRoundTrips ==
  (Reparsed /\ ~StartsWith(call.patch, "diff --git ")) => OneHunkWithSameLines

\* C20: for every hunk h of every file parseDiff gives, parseDiff on the patch text
\* assembled from the file's path lines and h.rawLines, after a 'diff --git' line, gives
\* one file with one hunk whose lines equal h.lines; on the patch text alone, which has
\* no 'diff --git' line, it gives no file.
C20_MarkedPatchRoundTrips ==
  Reparsed =>
    IF StartsWith(call.patch, "diff --git ") THEN OneHunkWithSameLines ELSE ParsedFiles = <<>>

\* a hunk with an added and a context line and a line of rawLines that is no line of the
\* hunk has gone through the round trip after a 'diff --git' line
C20_Witness ==
  /\ Reparsed
  /\ StartsWith(call.patch, "diff --git ")
  /\ Len(call.current[1].hunks[1].lines) = 1
  /\ Len(call.current[1].hunks[1].rawLines) = 3
  /\ call.current[1].oldPath = "f"
  /\ OneHunkWithSameLines

\* splitHunks has returned: the hunks it was given and the sub-hunks it gave
SplitReturned == pc = "computeHunkIds"

InputHunks == call.file[1].hunks

SubHunks == result.value[1]

\* the add/remove lines of a hunk, in order
Changed(lines) == SelectSeq(lines, LAMBDA l : l.type # "context")

\* the maximal runs of add/remove lines of a hunk, in order, as <<first, last>>
ChangeRuns(lines) ==
  LET starts == SortedSeq({k \in DOMAIN lines :
                             lines[k].type # "context" /\ (k = 1 \/ lines[k - 1].type = "context")})
      last(s) == CHOOSE e \in s..Len(lines) :
                   /\ \A j \in s..e : lines[j].type # "context"
                   /\ e = Len(lines) \/ lines[e + 1].type = "context"
  IN [i \in DOMAIN starts |-> <<starts[i], last(starts[i])>>]

\* C21: splitHunks never drops, duplicates or reorders a changed line: the add/remove
\* lines of the sub-hunks, concatenated in output order, are the add/remove lines of the
\* hunks in order, and no sub-hunk contains a context line.
C21_SplitKeepsChangedLines ==
  SplitReturned =>
    /\ Flatten([i \in DOMAIN SubHunks |-> Changed(SubHunks[i].lines)])
         = Flatten([h \in DOMAIN InputHunks |-> Changed(InputHunks[h].lines)])
    /\ \A i \in DOMAIN SubHunks : \A k \in DOMAIN SubHunks[i].lines :
         SubHunks[i].lines[k].type # "context"

\* a hunk with a context line between an added and a removed line has been split
C21_Witness ==
  /\ SplitReturned
  /\ Len(InputHunks) = 1
  /\ Len(SubHunks) >= 2
  /\ \E k \in DOMAIN InputHunks[1].lines : InputHunks[1].lines[k].type = "remove"
  /\ \E k \in DOMAIN InputHunks[1].lines : InputHunks[1].lines[k].type = "add"
  /\ Len(Changed(InputHunks[1].lines)) >= 3

\* the sub-hunks are the maximal runs of the hunks, one each and in order, with the
\* counts and rawLines of their lines
OneSubHunkPerRun ==
  /\ [i \in DOMAIN SubHunks |-> SubHunks[i].lines]
       = Flatten([h \in DOMAIN InputHunks |->
                    LET lines == InputHunks[h].lines
                        runs == ChangeRuns(lines)
                    IN [r \in DOMAIN runs |-> SubSeq(lines, runs[r][1], runs[r][2])]])
  /\ \A i \in DOMAIN SubHunks :
       LET sub == SubHunks[i]
       IN /\ sub.oldCount = Cardinality({k \in DOMAIN sub.lines : sub.lines[k].type = "remove"})
          /\ sub.newCount = Cardinality({k \in DOMAIN sub.lines : sub.lines[k].type = "add"})
          /\ sub.oldCount + sub.newCount >= 1
          /\ sub.rawLines = <<sub.header>> \o [k \in DOMAIN sub.lines |-> RawLine(sub.lines[k])]
  /\ \A h \in DOMAIN InputHunks :
       (Len(InputHunks) = 1 /\ Len(ChangeRuns(InputHunks[h].lines)) = 1) => Len(SubHunks) = 1

\* C22 as stated: every hunk gives one or more sub-hunks, exactly one per maximal run of
\* add/remove lines, with oldCount its remove lines, newCount its add lines and rawLines
\* the header then one '-'/'+' line per changed line.
C22_OneOrMoreSubHunks ==
  SplitReturned => (OneSubHunkPerRun /\ \A h \in DOMAIN InputHunks : ChangeRuns(InputHunks[h].lines) # <<>>)

\* C22: every hunk gives exactly one sub-hunk per maximal run of add/remove lines, so none
\* when it has no add/remove line (the hunk of a malformed '@@' line, a hunk of context
\* lines); each sub-hunk's oldCount is its number of remove lines and newCount its number
\* of add lines, its rawLines are the header then one '-'/'+' line per changed line, and a
\* hunk with a single run gives exactly one sub-hunk.
C22_OneSubHunkPerRun ==
  SplitReturned =>
    /\ OneSubHunkPerRun
    /\ \A h \in DOMAIN InputHunks :
         (Len(InputHunks) = 1 /\ Changed(InputHunks[h].lines) = <<>>) => SubHunks = <<>>

\* a hunk with a run of two lines, then context, then a run of removed and added lines
C22_Witness ==
  /\ SplitReturned
  /\ Len(InputHunks) = 1
  /\ Len(SubHunks) = 2
  /\ Len(SubHunks[1].lines) = 2
  /\ SubHunks[2].oldCount = 1
  /\ SubHunks[2].newCount = 1

\* the headers the convention gives for the runs of a hunk: the cursors have passed the
\* context and remove (resp. context and add) lines before the run
ConventionHeaders(hunk) ==
  LET runs == ChangeRuns(hunk.lines)
  IN [r \in DOMAIN runs |->
        LET before == 1..(runs[r][1] - 1)
            run == runs[r][1]..runs[r][2]
            groupOldStart == hunk.oldStart + Cardinality({k \in before : hunk.lines[k].type # "add"})
            groupNewStart == hunk.newStart + Cardinality({k \in before : hunk.lines[k].type # "remove"})
            oldCount == Cardinality({k \in run : hunk.lines[k].type = "remove"})
            newCount == Cardinality({k \in run : hunk.lines[k].type = "add"})
            a == IF oldCount = 0 THEN groupOldStart - 1 ELSE groupOldStart
            c == IF newCount = 0 THEN groupNewStart - 1 ELSE groupNewStart
        IN "@@ -" \o ToString(a) \o "," \o ToString(oldCount)
             \o " +" \o ToString(c) \o "," \o ToString(newCount) \o " @@"]

\* C23: the header of every sub-hunk is '@@ -a,oldCount +c,newCount @@' with
\* a = groupOldStart - 1 if oldCount = 0 else groupOldStart and c = groupNewStart - 1 if
\* newCount = 0 else groupNewStart, groupOldStart / groupNewStart being the hunk's
\* oldStart / newStart plus the context and remove (resp. context and add) lines before
\* the run.
C23_HeaderStartConvention ==
  SplitReturned =>
    [i \in DOMAIN SubHunks |-> SubHunks[i].header]
      = Flatten([h \in DOMAIN InputHunks |-> ConventionHeaders(InputHunks[h])])

\* a hunk that starts at line 3 / 4 split into a pure insertion and, after context, a
\* pure deletion
C23_Witness ==
  /\ SplitReturned
  /\ Len(InputHunks) = 1
  /\ InputHunks[1].oldStart = 3
  /\ Len(SubHunks) = 2
  /\ SubHunks[1].oldCount = 0
  /\ SubHunks[2].newCount = 0
  /\ SubHunks[2].oldStart > SubHunks[1].oldStart

\* computeHunkIds has returned: the sub-hunks it was given and the ids it gave
Identified == pc = "idle" /\ call.op = "computeHunkIds"

Batch == call.current[1].hunks

Ids == result.value[1]

\* the hash of an identity, without its '-k'
BaseOf(id) == Substring(id, 1, 8)

\* the same changed lines at other line numbers, under another header
MovedBy(hunk, n) ==
  LET header == HunkHeaderAtGroupStart(hunk.oldStart + n, hunk.oldCount, hunk.newStart + n, hunk.newCount)
  IN [hunk EXCEPT !.oldStart = @ + n, !.newStart = @ + n, !.header = header,
                  !.rawLines = <<header>> \o Tail(@)]

\* C24: the identity of a sub-hunk depends only on the file path and the (kind, text)
\* pairs of its add/remove lines, in order: two sub-hunks of a batch with the same
\* changed lines have the same hash whatever their oldStart/newStart/header, and the
\* identities of the same batch at other line numbers are the same.
C24_IdentityIgnoresPosition ==
  Identified =>
    /\ \A i, j \in DOMAIN Batch :
         Changed(Batch[i].lines) = Changed(Batch[j].lines) => BaseOf(Ids[i]) = BaseOf(Ids[j])
    /\ \A n \in 1..2 :
         computeHunkIds(call.filePath, [i \in DOMAIN Batch |-> MovedBy(Batch[i], n)]) = Ids

\* two sub-hunks with the same changed lines at different line numbers, and a third
\* with other lines, have their identities
C24_Witness ==
  /\ Identified
  /\ \E i, j, k \in DOMAIN Batch :
       /\ Batch[i].lines = Batch[j].lines
       /\ Batch[i].newStart # Batch[j].newStart
       /\ BaseOf(Ids[i]) = BaseOf(Ids[j])
       /\ Batch[k].lines # Batch[i].lines
       /\ BaseOf(Ids[k]) # BaseOf(Ids[i])

\* C25: the identities of a batch are pairwise distinct: a hash that occurs once is the
\* identity, and of a hash that occurs m >= 2 times the k-th occurrence in batch order
\* has the suffix '-k', the first one included.
C25_IdentitiesDistinct ==
  Identified =>
    /\ \A i, j \in DOMAIN Batch : i # j => Ids[i] # Ids[j]
    /\ \A i \in DOMAIN Batch :
         LET base == computeHunkId(call.filePath, Batch[i])
             m == Cardinality({j \in DOMAIN Batch : computeHunkId(call.filePath, Batch[j]) = base})
             k == Cardinality({j \in 1..i : computeHunkId(call.filePath, Batch[j]) = base})
         IN Ids[i] = IF m = 1 THEN base ELSE base \o "-" \o ToString(k)

\* a batch where one hash occurs three times and another once
C25_Witness ==
  /\ Identified
  /\ Len(Batch) = 3
  /\ Batch[1].lines = Batch[2].lines
  /\ Batch[2].lines = Batch[3].lines
  /\ Ids[3] = BaseOf(Ids[1]) \o "-3"

\* C26: clear() resets all state: after it every hunk of every file of the diff reads as
\* pending, the undo stack is empty, so that an undo() that follows returns null and
\* changes nothing, and the persisted blob holds no approved entry.
C26_ClearResetsAll ==
  [][/\ call'.op = "clear" =>
          /\ \A p \in Paths :
               LET file == DiffFiles[p][worktree'[p]]
               IN /\ \A i \in DOMAIN file.hunks : getStatusArray(statuses', file)[i] = "pending"
                  /\ getStatuses(statuses', p) = <<>>
          /\ undoStack' = <<>>
          /\ \A p \in DOMAIN storage' : \A id \in DOMAIN storage'[p] : storage'[p][id] # "approved"
     /\ (call.op = "clear" /\ call'.op = "undo") =>
          /\ result' = Return(<<>>)
          /\ pc' = "idle"
          /\ UNCHANGED <<statuses, undoStack, storage, worktree>>]_vars

\* a clear of a state with an approved hunk, an undo record and a persisted approval
C26_Witness ==
  /\ call.op = "clear"
  /\ \E p \in DOMAIN pre.statuses : \E id \in DOMAIN pre.statuses[p] :
       /\ pre.statuses[p][id] = "approved"
       /\ p \in DOMAIN pre.storage
       /\ Listed(p)
  /\ pre.undoStack # <<>>
  /\ statuses = <<>>

\* C27: in rejectAll the patch of every reverse-apply after the first is built from the
\* File that the re-diff after the previous reverse-apply returned, for a hunk of it that
\* is pending once that File is reconciled, never from the File passed to rejectAll or an
\* older one; a reverse-apply is only issued by the call itself or once the re-diff of
\* the previous step has returned and its File is reconciled.
C27_NextPatchFromFreshFile ==
  [][/\ (call.op = "rejectAll" /\ pc = "getFileDiff" /\ pc' = "applyReverse") =>
          LET p == call.filePath
              fresh == DiffFiles[p][worktree[p]]
          IN /\ call'.current = <<fresh>>
             /\ \E h \in Range(fresh.hunks) :
                  /\ h.id = call'.hunkId
                  /\ call'.patch = PatchText(fresh, h)
                  /\ StatusOf(statuses', p, h.id) = "pending"
             /\ DOMAIN StatusMap(statuses', p) = HunkIds(fresh)
             /\ gitLog[Len(gitLog)] = GitCall("getFileDiff", p)
             /\ gitLog' = Append(gitLog, GitCall("applyReverse", call'.patch))
     /\ (pc' = "applyReverse" /\ pc # "applyReverse") => pc \in {"idle", "getFileDiff"}
     /\ \A n \in DOMAIN gitLog' :
          (gitLog'[n].fn = "applyReverse" /\ n > 1) => gitLog'[n - 1].fn = "getFileDiff"]_vars

\* the second reverse-apply of a rejectAll, with a patch that no hunk of the File passed
\* to rejectAll gives
C27_Witness ==
  /\ call.op = "rejectAll"
  /\ pc = "applyReverse"
  /\ Len(ReversePatches) = 2
  /\ \A h \in Range(call.file[1].hunks) : call.patch # PatchText(call.file[1], h)
  /\ \E h \in Range(call.file[1].hunks) : h.id = call.hunkId

\* C28: rejectAll terminates when every git call it awaits returns or throws: every
\* successful reverse-apply leaves fewer inserted lines in the file, so the loop has
\* finitely many passes, and a rejectAll in progress ends; when it returns, it returns
\* null or a File none of whose hunks is pending.
C28_RejectAllTerminates ==
  /\ [][(call.op = "rejectAll" /\ pc = "applyReverse" /\ pc' = "getFileDiff") =>
          InsertedCount(worktree'[call.filePath]) < InsertedCount(worktree[call.filePath])]_vars
  /\ (call.op = "rejectAll" /\ pc # "idle") ~>
       (/\ call.op = "rejectAll"
        /\ pc = "idle"
        /\ result.kind = "return" =>
             \/ result.value = <<>>
             \/ \A h \in Range(result.value[1].hunks) :
                  StatusOf(statuses, call.filePath, h.id) # "pending")

\* a rejectAll has returned after two passes of its loop
C28_Witness ==
  /\ call.op = "rejectAll"
  /\ pc = "idle"
  /\ result.kind = "return"
  /\ Len(ReversePatches) = 2
  /\ Len(gitLog) = 4

\* C29: only pending hunks are rejected: reject and rejectAll issue no applyReverse for
\* a hunk whose status is approved, and when rejectAll has returned every hunk that was
\* approved when it was called is in the File it returned, with the status approved.
C29_OnlyPendingRejected ==
  /\ (pc = "applyReverse" /\ call.op \in {"reject", "rejectAll"}) =>
       StatusOf(statuses, call.filePath, call.hunkId) # "approved"
  /\ (pc = "idle" /\ call.op = "rejectAll" /\ result.kind = "return") =>
       \A id \in DOMAIN StatusMap(pre.statuses, call.filePath) :
         pre.statuses[call.filePath][id] = "approved" =>
           /\ result.value # <<>>
           /\ \E h \in Range(result.value[1].hunks) : h.id = id
           /\ StatusOf(statuses, call.filePath, id) = "approved"

\* C30: approve(path, id) on an identity that is already approved changes nothing: the
\* status stays approved and no approve record is pushed, so the undo stack never holds
\* two approve records for the same (path, id).
C30_ApproveIsIdempotent ==
  /\ (call.op = "approve" /\ StatusOf(pre.statuses, call.filePath, call.hunkId) = "approved") =>
       /\ statuses = pre.statuses
       /\ undoStack = pre.undoStack
  /\ \A i, j \in DOMAIN undoStack :
       (/\ i < j
        /\ undoStack[i].type = "approve"
        /\ undoStack[j].type = "approve"
        /\ undoStack[i].filePath = undoStack[j].filePath) => undoStack[i].hunkId # undoStack[j].hunkId

\* every hunk of the file that has an identity reads as approved
AllReadApproved(st, file) ==
  \A i \in DOMAIN file.hunks : file.hunks[i].id # "" => getStatusArray(st, file)[i] = "approved"

\* C31: after approveAll(path, file) on a tracked path every hunk of file that has an
\* identity reads as approved in getStatusArray(file), the hunks whose identity was not
\* in the status map included, and isFileResolved(path) is true only if that is so.
C31_ApproveAllApprovesEveryHunk ==
  (call.op = "approveAll" /\ call.filePath \in DOMAIN pre.statuses) =>
    /\ AllReadApproved(statuses, call.file[1])
    /\ isFileResolved(statuses, call.filePath) => AllReadApproved(statuses, call.file[1])

\* C32: when applyForward fails during the undo() of a reject record the failure reaches
\* the caller, the status map is unchanged and the reject record is still on top of the
\* undo stack, with the forward patch a later undo() gives to applyForward again.
C32_FailedUndoKeepsRecord ==
  (call.op = "undo" /\ pc = "idle" /\ result.kind = "throw") =>
    /\ gitLog = <<GitCall("applyForward", call.patch)>>
    /\ statuses = pre.statuses
    /\ undoStack = pre.undoStack
    /\ undoStack # <<>>
    /\ undoStack[Len(undoStack)].type = "reject"
    /\ undoStack[Len(undoStack)].forwardPatch = call.patch

\* a reject has returned a File after its git calls
RejectReturnedFile ==
  /\ call.op = "reject"
  /\ pc = "idle"
  /\ gitLog # <<>>
  /\ result.kind = "return"
  /\ result.value # <<>>

\* the hunks of the File passed to the call, the rejected one left out
OtherHunks ==
  LET hunks == call.file[1].hunks
      rejected == FindHunk(call.file[1], call.hunkId)
  IN [i \in 1..(Len(hunks) - 1) |-> IF i < rejected THEN hunks[i] ELSE hunks[i + 1]]

\* C33: rejecting one hunk does not change the decision on any other hunk: when the
\* fresh diff after reject(path, id, file) holds the other hunks of the file, each reads
\* with the status it had before the reject, also when several hunks have the same
\* changed content and their '-k' suffixes are renumbered.
C33_RejectKeepsOtherDecisions ==
  RejectReturnedFile =>
    LET fresh == result.value[1]
        others == OtherHunks
        before == getStatusArray(pre.statuses, [call.file[1] EXCEPT !.hunks = others])
    IN (/\ Len(fresh.hunks) = Len(others)
        /\ \A i \in DOMAIN others : fresh.hunks[i].lines = others[i].lines) =>
         \A i \in DOMAIN others : getStatusArray(statuses, fresh)[i] = before[i]

\* C34: a file is reported resolved, by isFileResolved and so by the resolved tree item
\* of getTreeItem, only if every hunk of the file's most recent diff is approved: also
\* after a restart before the file is reconciled, and after a new hunk has appeared in a
\* file whose earlier hunks were all approved.
C34_ResolvedOnlyIfAllApproved ==
  \A p \in Paths :
    (Listed(p) /\ isFileResolved(statuses, p)) => AllReadApproved(statuses, CurrentFile(p))

\* C35: whenever undo() returns undoneType 'approve' for (filePath, hunkId), that
\* identity was approved immediately before the call and is pending immediately after
\* it, whatever approve, approveAll, undoApprove, reject, reconciliation and
\* pruneCommittedFiles calls came before.
C35_UndoneApproveWasApproved ==
  (/\ call.op = "undo"
   /\ pc = "idle"
   /\ result.kind = "return"
   /\ result.value # <<>>
   /\ result.value[1].undoneType = "approve") =>
    /\ StatusOf(pre.statuses, call.filePath, call.hunkId) = "approved"
    /\ StatusOf(statuses, call.filePath, call.hunkId) = "pending"

\* C36: a webview approve or undo message with hunkIndex i acts on the hunk at index i of
\* the File the webview displays: the File that getFiles() gives for the path of an open
\* panel is the File that panel displays, never an older or a newer one.
C36_IndexNamesDisplayedHunk ==
  /\ \A p \in Paths : webviewFile[p] # <<>> => FindFile(treeFiles, p) = webviewFile[p]
  /\ (call.op \in {"approve", "undoApprove"} /\ call.current # <<>>) =>
       call.hunkId = call.current[1].hunks[1].id

\* the record undo() pops: the top of the stack when the call began
PoppedRecord == pre.undoStack[Len(pre.undoStack)]

\* undo() began with a reject record on top whose path has no entry in the status map
UndoOfPrunedReject ==
  /\ call.op = "undo"
  /\ pre.undoStack # <<>>
  /\ PoppedRecord.type = "reject"
  /\ PoppedRecord.filePath \notin DOMAIN pre.statuses

\* C37: pruneCommittedFiles leaves the undo stack as it was, and an undo() whose top
\* record is a reject record for a path no longer in the status map still calls
\* applyForward, once, with the patch stored in that record.
C37_PruneKeepsUndoStack ==
  /\ call.op = "pruneCommittedFiles" => undoStack = pre.undoStack
  /\ UndoOfPrunedReject =>
       /\ gitLog = <<GitCall("applyForward", PoppedRecord.forwardPatch)>>
       /\ call.patch = PoppedRecord.forwardPatch
       /\ (pc = "idle" /\ result.kind = "return") =>
            worktree = ApplyForward(pre.worktree, PoppedRecord.forwardPatch)

\* a reject record outlived the pruning of its path and undo() applied its patch
C37_Witness ==
  /\ UndoOfPrunedReject
  /\ pc = "idle"
  /\ result.kind = "return"
  /\ worktree # pre.worktree

\* C38: every sub-hunk header splitHunks writes for a hunk of parseDiff matches the
\* parser's header grammar '@@ -a,b +c,d @@' with a and c written as non-negative
\* numbers, also for the one hunk of a new file ('@@ -0,0 +1,n @@').
C38_SubHunkHeadersWellFormed ==
  SplitReturned =>
    \A k \in DOMAIN SubHunks :
      /\ MatchHeader(SubHunks[k].header) # <<>>
      /\ SubHunks[k].rawLines[1] = SubHunks[k].header

\* '@@ -a,b +c,d @@' written out for four numbers
HeaderText(a, b, c, d) ==
  "@@ -" \o ToString(a) \o "," \o ToString(b) \o " +" \o ToString(c) \o "," \o ToString(d) \o " @@"

\* C39 as stated: the oldStart/oldCount/newStart/newCount fields of every sub-hunk are
\* the four numbers of its own header, a start paired with a count of 0 included.
C39_FieldsAreHeaderNumbers ==
  SplitReturned =>
    \A k \in DOMAIN SubHunks :
      SubHunks[k].header = HeaderText(SubHunks[k].oldStart, SubHunks[k].oldCount,
                                      SubHunks[k].newStart, SubHunks[k].newCount)

\* C39: the start fields of a sub-hunk are the cursors at the first line of its run; the
\* counts of its header are its count fields, and a start of its header is its start
\* field, less one when the paired count is 0.
C39_HeaderStartsOneBeforeField ==
  SplitReturned =>
    \A k \in DOMAIN SubHunks :
      LET sub == SubHunks[k]
      IN /\ sub.header = HeaderText(IF sub.oldCount = 0 THEN sub.oldStart - 1 ELSE sub.oldStart,
                                    sub.oldCount,
                                    IF sub.newCount = 0 THEN sub.newStart - 1 ELSE sub.newStart,
                                    sub.newCount)
         /\ sub.oldCount = Cardinality({j \in DOMAIN sub.lines : sub.lines[j].type = "remove"})
         /\ sub.newCount = Cardinality({j \in DOMAIN sub.lines : sub.lines[j].type = "add"})
         /\ sub.oldCount + sub.newCount > 0

\* a line inserted at the top of an existing file: the field says line 1, the header 0
C39_Witness ==
  /\ SplitReturned
  /\ Len(SubHunks) = 1
  /\ SubHunks[1].oldStart = 1
  /\ SubHunks[1].oldCount = 0
  /\ SubHunks[1].header = "@@ -0,0 +1,1 @@"

\* every value of a map of maps of statuses is one of `allowed`
ValuesIn(st, allowed) == \A p \in DOMAIN st : \A id \in DOMAIN st[p] : st[p][id] \in allowed

\* C40: in every state every value of the status map is 'pending' or 'approved' and
\* every value in storage is 'approved'; once reject has applied its patch the rejected
\* identity has no entry in the map of its path ('rejected' is never stored).
C40_NoRejectedStatus ==
  /\ ValuesIn(statuses, {"pending", "approved"})
  /\ ValuesIn(storage, {"approved"})
  /\ (pc = "getFileDiff" /\ call.op = "reject") =>
       StatusOf(statuses, call.filePath, call.hunkId) = "untracked"

\* reject has applied the patch of an approved hunk of a file with other tracked
\* hunks: the identity is gone from the map, the others are still there
C40_Witness ==
  /\ pc = "getFileDiff"
  /\ call.op = "reject"
  /\ StatusOf(pre.statuses, call.filePath, call.hunkId) = "approved"
  /\ call.filePath \in DOMAIN statuses
  /\ DOMAIN statuses[call.filePath] # {}
  /\ storage # <<>>

====
